---- MODULE Spec2Model ----
(***************************************************************************)
(* Model of the SEED agent network layer (src/seed/network/core.py):       *)
(* vector-clock comparison, state reconciliation, the two-phase state      *)
(* synchronisation, the integrity check of a remote state payload and the  *)
(* retrying delivery to one node.                                          *)
(***************************************************************************)
EXTENDS Integers, Sequences, FiniteSets, TLC

\* ------------------------------------------------------------------ bounds

\* Counters of a vector clock range over 0..MaxCount.
MaxCount == 1

\* Node identities that may appear as keys of a vector clock.
NodeIds == {"A", "B", "C"}

\* ------------------------------------------------------- vector clocks

\* A vector clock is a Python dict: a function from SOME of the node ids to
\* counters.  A node id outside the domain is a missing key.
VClocksOver(nodes) ==
    UNION {[d -> 0..MaxCount] : d \in SUBSET nodes}

EmptyClock == [n \in {} |-> 0]

\* vclock.get(node, 0)
Get(vclock, node) == IF node \in DOMAIN vclock THEN vclock[node] ELSE 0

\* Variant: only the node ids of the first clock.
AllNodes_OnlyFirst(vclock1, vclock2) == DOMAIN vclock1

\* all_nodes = set(vclock1) | set(vclock2)
AllNodes(vclock1, vclock2) == (DOMAIN vclock1) \cup (DOMAIN vclock2)

\* The permutations of a set, as sequences: the orders in which Python may
\* iterate over a set.
Orders(S) ==
    {o \in [1..Cardinality(S) -> S] : \A x \in S : \E i \in DOMAIN o : o[i] = x}

\* The iteration order of `for node in all_nodes`: the elements of the set
\* in the order a given permutation of the node ids puts them.
IterOrder(S, order) == SelectSeq(order, LAMBDA n : n \in S)

\* Variant: the elif branch taken for count2 >= count1.
RECURSIVE VclockLoop_GE(_, _, _, _, _, _)
VclockLoop_GE(vclock1, vclock2, it, i, v1_greater, v2_greater) ==
    IF i > Len(it)
    THEN IF v1_greater THEN 1
         ELSE IF v2_greater THEN -1
         ELSE 0
    ELSE LET count1 == Get(vclock1, it[i])
             count2 == Get(vclock2, it[i])
             g1 == v1_greater \/ (count1 > count2)
             g2 == v2_greater \/ (~(count1 > count2) /\ count2 >= count1)
         IN  IF g1 /\ g2
             THEN 0
             ELSE VclockLoop_GE(vclock1, vclock2, it, i + 1, g1, g2)

\* The loop of _vclock_compare from its i-th iteration on, with the flags
\* v1_greater and v2_greater as they stand before it.
RECURSIVE VclockLoop(_, _, _, _, _, _)
VclockLoop(vclock1, vclock2, it, i, v1_greater, v2_greater) ==
    IF i > Len(it)
    THEN IF v1_greater THEN 1
         ELSE IF v2_greater THEN -1
         ELSE 0
    ELSE LET count1 == Get(vclock1, it[i])
             count2 == Get(vclock2, it[i])
             g1 == v1_greater \/ (count1 > count2)
             g2 == v2_greater \/ (~(count1 > count2) /\ count2 > count1)
         IN  IF g1 /\ g2
             THEN 0
             ELSE VclockLoop(vclock1, vclock2, it, i + 1, g1, g2)

\* _vclock_compare, iterating over all_nodes in the given order.
VclockCompareIn(vclock1, vclock2, order) ==
    VclockLoop(vclock1, vclock2,
               IterOrder(AllNodes(vclock1, vclock2), order), 1, FALSE, FALSE)

\* One fixed iteration order, for the callers of _vclock_compare.
CanonOrder == CHOOSE o \in Orders(NodeIds) : TRUE

VclockCompare(vclock1, vclock2) == VclockCompareIn(vclock1, vclock2, CanonOrder)

\* -------------------------------------------------- state reconciliation

\* Node ids used by the clocks of state entries, and the keys and values of
\* a state snapshot.
SyncNodeIds == {"A", "B"}
Keys == {"x", "y"}
Values == {1, 2}

\* A state entry is a dict with a value and, optionally, a vclock field.
Entries ==
    [value : Values] \cup [value : Values, vclock : VClocksOver(SyncNodeIds)]

\* A state snapshot is a dict from some of the keys to entries.
Snapshots == UNION {[d -> Entries] : d \in SUBSET Keys}

EmptyState == [k \in {} |-> [value |-> 1]]

\* entry.get("vclock", {})
GetVclock(entry) ==
    IF "vclock" \in DOMAIN entry THEN entry.vclock ELSE EmptyClock

\* Variant: the two clocks handed to _vclock_compare in the other order.
ResolveKey_Swapped(local_state, remote_state, key) ==
    IF key \notin DOMAIN remote_state THEN local_state[key]
    ELSE IF key \notin DOMAIN local_state THEN remote_state[key]
    ELSE IF VclockCompare(GetVclock(remote_state[key]),
                          GetVclock(local_state[key])) > 0
         THEN local_state[key]
         ELSE remote_state[key]

\* The body of the loop of _resolve_state_conflict for one key.
ResolveKey(local_state, remote_state, key) ==
    IF key \notin DOMAIN remote_state THEN local_state[key]
    ELSE IF key \notin DOMAIN local_state THEN remote_state[key]
    ELSE IF VclockCompare(GetVclock(local_state[key]),
                          GetVclock(remote_state[key])) > 0
         THEN local_state[key]
         ELSE remote_state[key]

\* Variant: the loop runs over the keys of the local snapshot only.
ResolveStateConflict_LocalKeys(local_state, remote_state) ==
    [key \in DOMAIN local_state |-> ResolveKey(local_state, remote_state, key)]

\* _resolve_state_conflict: each key of either snapshot is assigned once.
ResolveStateConflict(local_state, remote_state) ==
    [key \in (DOMAIN local_state) \cup (DOMAIN remote_state) |->
        ResolveKey(local_state, remote_state, key)]

\* ------------------------------------------------- payload integrity

\* Contents of a state payload: 0..MaxContent, and one more content, on
\* which the checksum computation raises.
MaxContent == 2
Unhashable == MaxContent + 1
Contents == 0..Unhashable

\* The checksums a payload may carry.
ChecksumMod == 3
Checksums == 0..(ChecksumMod - 1)

\* A received payload: a dict holding some of the fields version, timestamp,
\* checksum and content.
PayloadFields == {"version", "timestamp", "checksum", "content"}
FieldValues(f) ==
    IF f = "checksum" THEN Checksums
    ELSE IF f = "content" THEN Contents
    ELSE {1}
Payloads ==
    UNION {{p \in [d -> Contents \cup Checksums \cup {1}] :
                \A f \in d : p[f] \in FieldValues(f)} : d \in SUBSET PayloadFields}

\* _compute_state_checksum: a deterministic hash of the content, "exc" when
\* the computation raises.
ComputeStateChecksum(content) ==
    IF content = Unhashable THEN "exc"
    ELSE "sum" \o ToString((content * content + 1) % ChecksumMod)

\* What the caller compares the computed checksum with.
ChecksumText(c) == "sum" \o ToString(c)

\* required_fields = {"version", "timestamp", "checksum"}
RequiredFields == {"version", "timestamp", "checksum"}

\* The body of the try block of _verify_state_integrity: "True", "False",
\* or "exc" when a statement of it raises.
VerifyTryBody(is_dict, state_data) ==
    IF ~is_dict THEN "exc"
    ELSE IF ~(\A field \in RequiredFields : field \in DOMAIN state_data)
    THEN "False"
    ELSE IF "content" \notin DOMAIN state_data THEN "exc"
    ELSE LET computed_checksum == ComputeStateChecksum(state_data["content"])
         IN  IF computed_checksum = "exc" THEN "exc"
             ELSE IF computed_checksum = ChecksumText(state_data["checksum"])
             THEN "True"
             ELSE "False"

\* Variant: no except clause, an exception of the try block propagates.
VerifyStateIntegrity_NoExcept(is_dict, state_data) ==
    LET r == VerifyTryBody(is_dict, state_data)
    IN  IF r = "exc" THEN "raised" ELSE r

\* _verify_state_integrity: the try block, and False from the except clause.
VerifyStateIntegrity(is_dict, state_data) ==
    LET r == VerifyTryBody(is_dict, state_data)
    IN  IF r = "exc" THEN "False" ELSE r

\* ---------------------------------------------------- delivery and sync

\* max_retries of _send_to_node, and the factor of its sleep.
MaxRetries == 3
BaseDelay == 1

\* The peers a synchronisation may name, the sync ids an acknowledgment may
\* carry, and the number of synchronize_state calls of one behaviour.
PeerIds == {"B", "C"}
MaxSyncId == 2
MaxRuns == 2

\* The local states _get_local_state may return.
LocalStates == {EmptyState} \cup [{"x"} -> [value : Values]]

NoAck == [status |-> "none", sync_id |-> 0]

\* What _wait_for_sync_ack may return: an acknowledgment with a status and
\* a sync id.  (It may also raise TimeoutError.)
WaitForSyncAck == [status : {"ready", "rejected"}, sync_id : 1..MaxSyncId]

NoMessage == [phase |-> "none"]

\* --------------------------------------------------------- agent tokens

\* The agent ids tokens are issued for, and the number of tokens one
\* behaviour issues.  os.urandom(32) is a draw that repeats no earlier draw:
\* the token bytes are 1, 2, ... in the order drawn, and 0 stands for bytes
\* that were never drawn.
AgentIds == {"a1", "a2"}
MaxTokens == 3
TokenBytes == 0..MaxTokens

\* The texts a caller may present.  A canonical text is what b64encode
\* produces; a noisy text is a canonical text with characters outside the
\* base64 alphabet, or characters after the padding, added to it; an
\* invalid text is one b64decode raises on (or a value that is no string).
TokenTexts == [form : {"canon", "noisy", "invalid"}, bytes : TokenBytes]

\* base64.b64encode(token).decode()
B64Encode(bytes) == [form |-> "canon", bytes |-> bytes]

\* base64.b64decode(text.encode()): the characters outside the alphabet and
\* those after the padding are discarded; ok is FALSE when it raises.
B64Decode(text) ==
    IF text.form = "invalid"
    THEN [ok |-> FALSE, bytes |-> 0]
    ELSE [ok |-> TRUE, bytes |-> text.bytes]

NoKeys == [id \in {} |-> 0]
NoQuery == [agent_id |-> "none", token |-> [form |-> "none", bytes |-> 0]]

\* Variant: no try around the decoding, its exception propagates.
VerifyAgentToken_NoTry(keys, agent_id, token) ==
    IF agent_id \notin DOMAIN keys THEN "False"
    ELSE LET provided_token == B64Decode(token)
         IN  IF ~provided_token.ok THEN "raised"
             ELSE IF keys[agent_id] = provided_token.bytes THEN "True"
             ELSE "False"

\* verify_agent_token: False for an id with no stored token, False from the
\* bare except when the decoding raises, otherwise the comparison of the
\* stored bytes with the decoded bytes.
VerifyAgentToken(keys, agent_id, token) ==
    IF agent_id \notin DOMAIN keys THEN "False"
    ELSE LET provided_token == B64Decode(token)
         IN  IF ~provided_token.ok THEN "False"
             ELSE IF keys[agent_id] = provided_token.bytes THEN "True"
             ELSE "False"

\* ------------------------------------------------- message encryption

\* The NetworkSecurity instances; each generates its own Fernet key, and two
\* generated keys differ.
Instances == {"s1", "s2"}
FernetKey(inst) == inst

\* A payload: the type of its dict keys, the type of its sequences, whether
\* json.dumps accepts its values, and its data 0..MaxData.
MaxData == 1
MessagePayloads ==
    [keys : {"str", "int"}, seq : {"list", "tuple"},
     serializable : BOOLEAN, data : 0..MaxData]
NoPayload == [keys |-> "none", seq |-> "none", serializable |-> FALSE, data |-> 0]

\* json.dumps(data): keys are written as strings and tuples as arrays.
JsonDumps(data) == [keys |-> "str", seq |-> "list", data |-> data.data]

\* json.loads(text): objects with string keys, arrays as lists.
JsonLoads(text) ==
    [keys |-> text.keys, seq |-> text.seq, serializable |-> TRUE,
     data |-> text.data]

\* The initialisation vectors Fernet.encrypt may draw.
FernetIvs == {1, 2}

\* The authentication tag of a Fernet token: only the holder of the key
\* computes the tag of an iv and a body.
FernetMac(key, iv, body) == <<key, iv, body>>

\* Fernet.encrypt under a key, with the iv drawn.
FernetEncrypt(key, iv, message_bytes) ==
    [form |-> "token", iv |-> iv, body |-> <<key, message_bytes>>,
     mac |-> FernetMac(key, iv, <<key, message_bytes>>)]

NoCiphertext == [form |-> "none"]

\* What an alteration in flight makes of a ciphertext: another body under
\* the old tag, another iv, a tag that is not the key's, or a truncation.
Tamperings(ct) ==
    {[ct EXCEPT !.body = <<ct.body[1], [ct.body[2] EXCEPT !.data = 1 - @]>>],
     [ct EXCEPT !.iv = 3 - @],
     [ct EXCEPT !.mac = <<"forged", ct.iv, ct.body>>],
     [form |-> "truncated"]}

\* Variant: the tag is not verified.
FernetDecrypt_NoMac(key, ct) ==
    IF ct.form # "token" THEN [ok |-> FALSE]
    ELSE [ok |-> TRUE, message_bytes |-> ct.body[2]]

\* Fernet.decrypt under a key: InvalidToken (ok FALSE) for a malformed token
\* or a tag that is not the key's tag of the iv and the body.
FernetDecrypt(key, ct) ==
    IF ct.form # "token" THEN [ok |-> FALSE]
    ELSE IF ct.mac # FernetMac(key, ct.iv, ct.body) THEN [ok |-> FALSE]
    ELSE [ok |-> TRUE, message_bytes |-> ct.body[2]]

\* Variant: a new key is generated for the encryption.
EncryptMessage_FreshKey(inst, iv, data) ==
    IF ~data.serializable THEN [ok |-> FALSE]
    ELSE [ok |-> TRUE, ct |-> FernetEncrypt("fresh", iv, JsonDumps(data))]

\* encrypt_message on an instance: json.dumps raises TypeError (ok FALSE)
\* for a payload it cannot serialise.
EncryptMessage(inst, iv, data) ==
    IF ~data.serializable THEN [ok |-> FALSE]
    ELSE [ok |-> TRUE, ct |-> FernetEncrypt(FernetKey(inst), iv, JsonDumps(data))]

\* decrypt_message on an instance: InvalidToken propagates (ok FALSE).
DecryptMessage(inst, encrypted_data) ==
    LET d == FernetDecrypt(FernetKey(inst), encrypted_data)
    IN  IF ~d.ok THEN [ok |-> FALSE]
        ELSE [ok |-> TRUE, data |-> JsonLoads(d.message_bytes)]

\* ---------------------------------------------------------------- metrics

\* The counters and the calls of one behaviour are bounded; the window of
\* the latency deque is the code's.
LatencyWindow == 100
MaxMessages == 10
MaxFailed == 1
MaxSamples == 102
MessageSizes == {64}

\* The latencies a behaviour measures, in milliseconds: a steady 600, or a
\* latency that grows by 20 with every sample.
Profiles == {"steady", "growing"}
SampleOf(profile, n) == IF profile = "steady" THEN 600 ELSE 20 * n

\* Numbers that are no integers are fractions <<numerator, denominator>>
\* in lowest terms with a positive denominator.
RECURSIVE Gcd(_, _)
Gcd(a, b) == IF b = 0 THEN a ELSE Gcd(b, a % b)
Abs(x) == IF x < 0 THEN 0 - x ELSE x
Frac(n, d) ==
    LET g == Gcd(Abs(n), d) IN <<n \div g, d \div g>>
FracAdd(a, b) == Frac(a[1] * b[2] + b[1] * a[2], a[2] * b[2])
FracLess(a, b) == a[1] * b[2] < b[1] * a[2]
One == Frac(1, 1)
Zero == Frac(0, 1)
None == <<0, 0>>

RECURSIVE SumSeq(_)
SumSeq(xs) == IF xs = <<>> THEN 0 ELSE Head(xs) + SumSeq(Tail(xs))

\* Variant: a deque without maxlen.
DequeAppend_Unbounded(samples, x) == Append(samples, x)

\* deque(maxlen=100).append: a full deque drops its oldest element.
DequeAppend(samples, x) ==
    IF Len(samples) = LatencyWindow
    THEN Append(Tail(samples), x)
    ELSE Append(samples, x)

\* statistics.mean of a non-empty sequence of numbers.
Mean(xs) == Frac(SumSeq(xs), Len(xs))

\* Variant: the latency score is not held at 0.
CalculateHealthScore_NoFloor(latency, delivery_rate) ==
    IF latency = None THEN delivery_rate
    ELSE LET latency_score ==
                 Frac(1000 * latency[2] - latency[1], 1000 * latency[2])
             total == FracAdd(delivery_rate, latency_score)
         IN  Frac(total[1], 2 * total[2])

\* _calculate_health_score(latency, delivery_rate): the mean of the
\* delivery rate and, when there is a latency, of max(0, 1 - latency/1000).
CalculateHealthScore(latency, delivery_rate) ==
    IF latency = None THEN delivery_rate
    ELSE LET penalty ==
                 Frac(1000 * latency[2] - latency[1], 1000 * latency[2])
             latency_score == IF FracLess(Zero, penalty) THEN penalty ELSE Zero
             total == FracAdd(delivery_rate, latency_score)
         IN  Frac(total[1], 2 * total[2])

\* ----------------------------------------------- discovery and monitoring

Hosts == {"h1", "h2"}
Ports == {1, 2}
CapabilitySets == {{}, {"c"}}

BroadcastInterval == 60
HealthInterval == 30
MonitorInterval == 60
ErrorPause == 5
MissedChecks == 3
EvictionWindow == MissedChecks * HealthInterval

MaxTime == 91
MaxErrors == 2
TickSteps == {HealthInterval, 2 * HealthInterval + 1}
NeverSeen == 0 - 1

Loops == {"discovery", "health", "monitor"}
DiscoveryTasks == {"discovery", "health"}
Interval(loop) ==
    CASE loop = "discovery" -> BroadcastInterval
      [] loop = "health" -> HealthInterval
      [] loop = "monitor" -> MonitorInterval

\* Variant: last_seen is not taken from the clock.
NetworkNode_EpochLastSeen(agent_id, host, port, capabilities, t) ==
    [agent_id |-> agent_id, host |-> host, port |-> port,
     capabilities |-> capabilities, last_seen |-> 0, status |-> "active"]

\* The NetworkNode record: last_seen defaults to the time of construction,
\* status to "active".
NetworkNode(agent_id, host, port, capabilities, t) ==
    [agent_id |-> agent_id, host |-> host, port |-> port,
     capabilities |-> capabilities, last_seen |-> t, status |-> "active"]

NoNodes == [id \in {} |-> NetworkNode("", "", 0, {}, 0)]
NoArgs == [agent_id |-> "none"]

\* One probe of every known node at time t.  A node that answers is seen
\* now; a node unseen for more than one interval is stale; a node unseen
\* for more than the eviction window is removed.
CheckNodesHealth(ns, t, responsive) ==
    [id \in {i \in DOMAIN ns :
                i \in responsive \/ t - ns[i].last_seen <= EvictionWindow} |->
        IF id \in responsive
        THEN [ns[id] EXCEPT !.last_seen = t, !.status = "active"]
        ELSE [ns[id] EXCEPT !.status =
                 IF t - ns[id].last_seen > HealthInterval
                 THEN "stale" ELSE "active"]]

\* ------------------------------------------------------- the task executor

\* The values of retry_attempts a configuration may hold, the tasks one
\* behaviour submits, and the calls a handler may fail on before it
\* succeeds.
MaxRetryAttempts == 3
MaxTasks == 2
MaxFailFirst == 3
TaskIds == 1..MaxTasks

\* What a handler does: it raises on its first n calls and returns from
\* then on, or it raises on every call.
Handlers ==
    [kind : {"fails_first"}, n : 0..MaxFailFirst]
        \cup {[kind |-> "always_fails", n |-> 0]}
NoHandler == [kind |-> "none", n |-> 0]
HandlerRaises(h, call) == h.kind = "always_fails" \/ call <= h.n

\* The task record of submit_task.  called counts the invocations of the
\* handler for the task.
NewTask ==
    [status |-> "PENDING", attempts |-> 0, result |-> "None",
     error |-> "None", called |-> 0]
NoTasks == [id \in {} |-> NewTask]

\* The retry loop of execute from the while test on: calls is the number
\* of calls the handler has served so far.
RECURSIVE RetryLoop(_, _, _, _)
RetryLoop(task, calls, retries, h) ==
    IF task.attempts < retries
    THEN LET attempted == [task EXCEPT !.attempts = @ + 1, !.called = @ + 1]
         IN  IF ~HandlerRaises(h, calls + 1)
             THEN [task |-> [attempted EXCEPT !.status = "COMPLETED",
                                              !.result = "success"],
                   calls |-> calls + 1,
                   outcome |-> "returned", value |-> "success"]
             ELSE IF attempted.attempts >= retries
             THEN [task |-> [attempted EXCEPT !.status = "FAILED",
                                              !.error = "Simulated failure"],
                   calls |-> calls + 1,
                   outcome |-> "RuntimeError", value |-> "None"]
             ELSE RetryLoop(attempted, calls + 1, retries, h)
    ELSE [task |-> task, calls |-> calls,
          outcome |-> "returned", value |-> "None"]

\* Variant: execute runs a task whatever its status.
ExecuteTask_NoPendingCheck(task, calls, retries, h) ==
    RetryLoop([task EXCEPT !.status = "RUNNING"], calls, retries, h)

\* execute(task_id) for a known task: a task that is not PENDING yields its
\* stored result; a PENDING task becomes RUNNING and enters the retry loop.
ExecuteTask(task, calls, retries, h) ==
    IF task.status # "PENDING"
    THEN [task |-> task, calls |-> calls,
          outcome |-> "returned", value |-> task.result]
    ELSE RetryLoop([task EXCEPT !.status = "RUNNING"], calls, retries, h)

NoCall == [op |-> "none"]

\* ------------------------------------------------------- the conversation

\* Strings are sequences of characters; messages are the strings of up to
\* two characters, the blank ones among them.
MaxHistory == 2
MaxAccepted == 3
Chars == {" ", "a"}
Texts == UNION {[1..n -> Chars] : n \in 0..2}
VALID_ROLES == {"user", "assistant", "system"}
Roles == VALID_ROLES \cup {"invalid_role"}
ResponseLengths == {2, 1000}
MessageCounts == 0..(MaxHistory + 1)

\* str.strip(): the string without its leading and trailing blanks.
RECURSIVE LStrip(_)
LStrip(text) ==
    IF text = <<>> \/ Head(text) # " " THEN text ELSE LStrip(Tail(text))
RECURSIVE RStrip(_)
RStrip(text) ==
    IF text = <<>> \/ text[Len(text)] # " "
    THEN text
    ELSE RStrip(SubSeq(text, 1, Len(text) - 1))
Strip(text) == RStrip(LStrip(text))

\* list[start:] of Python: a negative start counts from the end, and a
\* start of -0 is 0.
SliceFrom(list, start) ==
    LET first == IF start < 0
                 THEN (IF Len(list) + start < 0 THEN 0 ELSE Len(list) + start)
                 ELSE (IF start > Len(list) THEN Len(list) ELSE start)
    IN  SubSeq(list, first + 1, Len(list))

\* Variant: a blank message is accepted.
AddMessage_NoValidation(hist, message, role, limit) ==
    LET appended ==
            Append(hist, [content |-> Strip(message), role |-> role])
    IN  [raised |-> FALSE,
         history |-> IF Len(appended) > limit
                     THEN SliceFrom(appended, 0 - limit)
                     ELSE appended]

\* add_message(message, role) with max_history = limit: ValueError for a
\* blank message or a role outside VALID_ROLES, else the stripped message
\* is appended and the history trimmed with history[-max_history:].
AddMessage(hist, message, role, limit) ==
    IF message = <<>> \/ Strip(message) = <<>> \/ role \notin VALID_ROLES
    THEN [raised |-> TRUE, history |-> hist]
    ELSE LET appended ==
                 Append(hist, [content |-> Strip(message), role |-> role])
         IN  [raised |-> FALSE,
              history |-> IF Len(appended) > limit
                          THEN SliceFrom(appended, 0 - limit)
                          ELSE appended]

\* _process_input(user_input) and the cut to max_response_length.
ResponsePrefix == <<"P", ":", " ">>
Ellipsis == <<".", ".", ".">>
ProcessInput(user_input) == ResponsePrefix \o user_input
Shorten(response, length) ==
    IF Len(response) > length
    THEN SubSeq(response, 1, length) \o Ellipsis
    ELSE response

\* generate_response(user_input): the input is added for the user, the
\* response for the assistant; an error of the first add_message leaves
\* the call.
GenerateResponse(hist, user_input, limit, length) ==
    LET first == AddMessage(hist, user_input, "user", limit)
        response == Shorten(ProcessInput(user_input), length)
        second == AddMessage(first.history, response, "assistant", limit)
    IN  IF first.raised
        THEN [raised |-> TRUE, history |-> first.history, added |-> <<>>]
        ELSE IF second.raised
        THEN [raised |-> TRUE, history |-> second.history,
              added |-> <<[content |-> Strip(user_input), role |-> "user"]>>]
        ELSE [raised |-> FALSE, history |-> second.history,
              added |-> <<[content |-> Strip(user_input), role |-> "user"],
                          [content |-> Strip(response),
                           role |-> "assistant"]>>]

\* get_context(message_count): <<>> stands for no argument (None), <<n>>
\* for the argument n.
GetContext(hist, message_count) ==
    IF message_count = <<>>
    THEN hist
    ELSE SliceFrom(hist, 0 - message_count[1])

\* ------------------------------------------------------------ the sandbox

\* The resources in the order apply sets them and restore puts them back.
Resources == <<"cpu", "memory", "fsize", "nofile">>
ResourceNames == {Resources[i] : i \in 1..Len(Resources)}

\* A limit above every configured one stands for RLIM_INFINITY.
Unlimited == 2047 * 1024 * 1024
ProcessLimits == {<<1000, 1000>>, <<Unlimited, Unlimited>>}
PermissionLevels == {"minimal", "standard", "extended", "invalid_level"}

\* The default limits, the limits of the tests and limits with a memory
\* unit that does not parse.
ResourceLimits ==
    {[memory |-> [value |-> 512, unit |-> "M"], cpu |-> 50,
      fsize |-> 1024 * 1024, nofile |-> 64],
     [memory |-> [value |-> 1, unit |-> "G"], cpu |-> 75,
      fsize |-> 2048 * 1024, nofile |-> 128],
     [memory |-> [value |-> 1, unit |-> "K"], cpu |-> 50,
      fsize |-> 1024 * 1024, nofile |-> 64]}

\* _parse_memory_limit(limit): bytes for the units M and G, ValueError for
\* any other unit.
ParseMemoryLimit(limit) ==
    IF limit.unit = "M"
    THEN [raised |-> FALSE, bytes |-> limit.value * 1024 * 1024]
    ELSE IF limit.unit = "G"
    THEN [raised |-> FALSE, bytes |-> limit.value * 1024 * 1024 * 1024]
    ELSE [raised |-> TRUE, bytes |-> 0]

\* The limit apply computes for a resource.
ConfiguredLimit(limits, name) ==
    IF name = "memory"
    THEN ParseMemoryLimit(limits.memory)
    ELSE [raised |-> FALSE,
          bytes |-> IF name = "cpu" THEN limits.cpu
                    ELSE IF name = "fsize" THEN limits.fsize
                    ELSE limits.nofile]

\* resource.setrlimit(resource, (soft, hard)): a process without the
\* privilege may not raise its hard limit, and no soft limit exceeds the
\* hard one.
SetrlimitAllowed(current, pair, privilege) ==
    /\ pair[1] <= pair[2]
    /\ privilege \/ pair[2] <= current[2]

\* The four setrlimit calls of apply from resource i on: the first limit
\* that does not parse or may not be set raises and leaves the later ones
\* as they are.
RECURSIVE SetConfiguredLimits(_, _, _, _)
SetConfiguredLimits(current, limits, privilege, i) ==
    IF i > Len(Resources)
    THEN [raised |-> FALSE, rlimits |-> current]
    ELSE LET name == Resources[i]
             limit == ConfiguredLimit(limits, name)
             pair == <<limit.bytes, limit.bytes>>
         IN  IF limit.raised
                 \/ ~SetrlimitAllowed(current[name], pair, privilege)
             THEN [raised |-> TRUE, rlimits |-> current]
             ELSE SetConfiguredLimits([current EXCEPT ![name] = pair],
                                      limits, privilege, i + 1)

\* _apply_permissions(): SANDBOX_LEVEL is set for the three levels,
\* ValueError for any other.
ApplyPermissions(level, env) ==
    IF level \in {"minimal", "standard", "extended"}
    THEN [raised |-> FALSE, environ |-> level]
    ELSE [raised |-> TRUE, environ |-> env]

\* The loop of restore over _original_limits from resource i on.
RECURSIVE RestoreLimits(_, _, _, _)
RestoreLimits(current, original, privilege, i) ==
    IF i > Len(Resources)
    THEN [raised |-> FALSE, rlimits |-> current]
    ELSE LET name == Resources[i]
         IN  IF ~SetrlimitAllowed(current[name], original[name], privilege)
             THEN [raised |-> TRUE, rlimits |-> current]
             ELSE RestoreLimits([current EXCEPT ![name] = original[name]],
                                original, privilege, i + 1)

NoLimits == [name \in ResourceNames |-> <<0, 0>>]

\* ------------------------------------------------------------ the task queue

MaxQueued == 3
TaskPriority == {"LOW", "NORMAL", "HIGH", "CRITICAL"}
PriorityValue(priority) ==
    CASE priority = "LOW" -> 0
      [] priority = "NORMAL" -> 1
      [] priority = "HIGH" -> 2
      [] priority = "CRITICAL" -> 3

\* Task.create: tasks are created one after the other, so created_at
\* grows with the id.
QueueTasks ==
    [priority : TaskPriority, created_at : 1..MaxQueued, task_id : 1..MaxQueued]

\* a < b of the dataclass with order=True: the tuples (priority,
\* created_at) are compared; two different members of the Enum
\* TaskPriority have no order and raise TypeError.
TaskLess(a, b) ==
    IF a.priority = b.priority
    THEN (IF a.created_at < b.created_at THEN "true" ELSE "false")
    ELSE "TypeError"

\* The list with the elements at the 0-based positions i and j exchanged.
SwapAt(heap, i, j) ==
    [heap EXCEPT ![i + 1] = heap[j + 1], ![j + 1] = heap[i + 1]]

\* _siftdown(heap, startpos, pos) of heapq: the item at pos moves towards
\* the root while it is less than its parent; a comparison that raises
\* leaves the list as it is at that moment.
RECURSIVE SiftDown(_, _, _)
SiftDown(heap, startpos, pos) ==
    IF pos > startpos
    THEN LET parentpos == (pos - 1) \div 2
             less == TaskLess(heap[pos + 1], heap[parentpos + 1])
         IN  IF less = "TypeError" THEN [raised |-> TRUE, heap |-> heap]
             ELSE IF less = "false" THEN [raised |-> FALSE, heap |-> heap]
             ELSE SiftDown(SwapAt(heap, pos, parentpos), startpos, parentpos)
    ELSE [raised |-> FALSE, heap |-> heap]

\* The loop of _siftup(heap, pos): the smaller child moves up until a
\* leaf is reached.
RECURSIVE SiftUpLoop(_, _)
SiftUpLoop(heap, pos) ==
    IF pos < Len(heap) \div 2
    THEN LET childpos == 2 * pos + 1
             less == IF childpos + 1 < Len(heap)
                     THEN TaskLess(heap[childpos + 1], heap[childpos + 2])
                     ELSE "true"
             chosen == IF less = "true" THEN childpos ELSE childpos + 1
         IN  IF less = "TypeError"
             THEN [raised |-> TRUE, heap |-> heap, pos |-> pos]
             ELSE SiftUpLoop(SwapAt(heap, chosen, pos), chosen)
    ELSE [raised |-> FALSE, heap |-> heap, pos |-> pos]

SiftUp(heap, pos) ==
    LET loop == SiftUpLoop(heap, pos)
    IN  IF loop.raised
        THEN [raised |-> TRUE, heap |-> loop.heap]
        ELSE SiftDown(loop.heap, pos, loop.pos)

\* heapq.heappush(heap, item).
HeapPush(heap, item) == SiftDown(Append(heap, item), 0, Len(heap))

\* heapq.heappop(heap) for a heap that is not empty: the last element
\* takes the place of the root and is sifted; the root is returned unless
\* a comparison raises.
HeapPop(heap) ==
    LET lastelt == heap[Len(heap)]
        rest == SubSeq(heap, 1, Len(heap) - 1)
        moved == SiftUp([rest EXCEPT ![1] = lastelt], 0)
    IN  IF rest = <<>>
        THEN [raised |-> FALSE, heap |-> rest, item |-> <<lastelt>>]
        ELSE IF moved.raised
        THEN [raised |-> TRUE, heap |-> moved.heap, item |-> <<>>]
        ELSE [raised |-> FALSE, heap |-> moved.heap, item |-> <<rest[1]>>]

\* ------------------------------------------------------------ variables

VARIABLES
    vcA, vcB,        \* the two clocks handed to _vclock_compare
    vcOrder,         \* the iteration order of the set of node ids
    vcPc,            \* "ready" before the calls, "done" after
    cmpAB, cmpBA     \* _vclock_compare(vcA, vcB) and _vclock_compare(vcB, vcA)

VARIABLES
    rsL, rsR,        \* the local and the remote snapshot
    rsPc,            \* "ready", "resolved", "again"
    rsLR, rsRL,      \* _resolve_state_conflict(L, R) and (R, L)
    rsML, rsMR       \* the result M = rsLR reconciled again with L, with R

VARIABLES
    vfIsDict,        \* whether the received payload is a dict at all
    vfData,          \* the received payload
    vfPc,            \* "ready" before the call, "done" after
    vfRes            \* "True", "False", or "raised"

VARIABLES
    sdPc,            \* _send_to_node: "idle", "connect", "sleep",
                     \* "returned", "raised"
    sdAttempt,       \* the loop variable attempt
    sdTarget,        \* the node the call sends to
    sdMsg,           \* the message data of the call
    sdOutcomes,      \* the outcome of each attempt of the call, in order
    sdSleeps         \* the delays of the call's sleeps, in order

VARIABLES
    syPc,            \* synchronize_state: "idle", "prepare", "wait_ack",
                     \* "commit", "returned", "raised"
    syPeer,          \* peer_id
    syLocal,         \* the local state
    syAck,           \* the acknowledgment received, NoAck before
    syTimedOut,      \* whether the wait for the acknowledgment timed out
    sySends,         \* the send_message calls of this run, in order
    syHandled,       \* the peers _handle_sync_timeout was invoked for
    syRuns           \* the synchronize_state calls so far

vcVars == <<vcA, vcB, vcOrder, vcPc, cmpAB, cmpBA>>
rsVars == <<rsL, rsR, rsPc, rsLR, rsRL, rsML, rsMR>>
vfVars == <<vfIsDict, vfData, vfPc, vfRes>>
sdVars == <<sdPc, sdAttempt, sdTarget, sdMsg, sdOutcomes, sdSleeps>>
syVars == <<syPc, syPeer, syLocal, syAck, syTimedOut, sySends, syHandled, syRuns>>

VARIABLES
    failed_messages, \* NetworkMetrics.failed_messages
    sent_messages,   \* NetworkMetrics.sent_messages
    delivered_messages, \* NetworkMetrics.delivered_messages
    bytes_sent,      \* NetworkMetrics.bytes_sent
    latency_samples, \* NetworkMetrics.latency_samples, oldest first
    latProfile,      \* the latencies measured: "none" before the first
    latCount         \* the number of add_latency_sample calls so far

VARIABLES
    bcPc,            \* a broadcast: "idle", "next", "sending", "done"
    bcActive,        \* the active nodes the broadcast goes to
    bcTodo,          \* the targets not yet sent to
    bcDelivered,     \* the targets _send_to_node returned for
    bcFailed,        \* the targets a failure was reported for
    bcOutcomes       \* per target, the outcomes of its attempts

VARIABLES
    agentKeys,       \* NetworkSecurity._agent_keys: agent id -> token bytes
    tkNext,          \* the next value os.urandom draws
    tkIssued,        \* per agent id, the tokens issued for it so far
    tkQuery,         \* the arguments of the last verify_agent_token call
    tkBefore,        \* _agent_keys as it was when that call began
    tkRes            \* its result: "True", "False", "raised"; "none" before

VARIABLES
    crPayload,       \* the payload handed to encrypt_message
    crEncBy,         \* the instance that encrypted
    crCt,            \* the ciphertext in flight
    crTampered,      \* whether the ciphertext was altered in flight
    crDecBy,         \* the instance that decrypted
    crRes,           \* "none", "TypeError", "encrypted", "payload",
                     \* "InvalidToken"
    crOut            \* the payload decrypt_message returned

mtVars == <<failed_messages, sent_messages, delivered_messages, bytes_sent,
            latency_samples, latProfile, latCount>>
bcVars == <<bcPc, bcActive, bcTodo, bcDelivered, bcFailed, bcOutcomes>>
tkVars == <<agentKeys, tkNext, tkIssued, tkQuery, tkBefore, tkRes>>
crVars == <<crPayload, crEncBy, crCt, crTampered, crDecBy, crRes, crOut>>

VARIABLES now, nodes, seenAt, rgLast, rgArgs, rgOverwrote
VARIABLES lpPc, lpCancel, lpCancelledAt, lpErrors, lpSleep, dsPc, monPc
rgVars == <<now, nodes, seenAt, rgLast, rgArgs, rgOverwrote>>
lpVars == <<lpPc, lpCancel, lpCancelledAt, lpErrors, lpSleep, dsPc, monPc>>
VARIABLES ccPc, ccPeer, ccPrepares, ccAcks, ccNext, ccGot, ccCommits,
          ccHandled, ccOverlap
ccVars == <<ccPc, ccPeer, ccPrepares, ccAcks, ccNext, ccGot, ccCommits,
            ccHandled, ccOverlap>>
VARIABLES alert_callbacks, mnAlerted, mnInvoked, mnBand
mnVars == <<alert_callbacks, mnAlerted, mnInvoked, mnBand>>
VARIABLES txPc, retry_attempts, handler, handlerCalls, tasks, txLast
txVars == <<txPc, retry_attempts, handler, handlerCalls, tasks, txLast>>
VARIABLES cvPc, max_history, max_response_length, history, accepted, cvLast
cvVars == <<cvPc, max_history, max_response_length, history, accepted, cvLast>>
VARIABLES sbPc, permissions, resource_limits, privileged, enabled, original_limits, rlimits, environ, sbInitial, sbFailed, sbLast, withPc
sbVars == <<sbPc, permissions, resource_limits, privileged, enabled, original_limits, rlimits, environ, sbInitial, sbFailed, sbLast, withPc>>
VARIABLES queue, task_map, qCalled, qPopped, qLast
qVars == <<queue, task_map, qCalled, qPopped, qLast>>
laterVars ==
    <<mtVars, bcVars, tkVars, crVars, rgVars, lpVars, ccVars, mnVars, txVars,
     cvVars,
     sbVars,
     qVars>>

vars == <<vcVars, rsVars, vfVars, sdVars, syVars, laterVars>>

\* ---------------------------------------------- _vclock_compare as a step

VcIdle ==
    /\ vcA = EmptyClock /\ vcB = EmptyClock
    /\ vcOrder = CanonOrder
    /\ vcPc = "off" /\ cmpAB = 0 /\ cmpBA = 0

VcInit ==
    /\ vcA \in VClocksOver(NodeIds)
    /\ vcB \in VClocksOver(NodeIds)
    /\ vcOrder \in Orders(NodeIds)
    /\ vcPc = "ready"
    /\ cmpAB = 0 /\ cmpBA = 0

\* The two calls _vclock_compare(A, B) and _vclock_compare(B, A).
Compare ==
    /\ vcPc = "ready"
    /\ cmpAB' = VclockCompareIn(vcA, vcB, vcOrder)
    /\ cmpBA' = VclockCompareIn(vcB, vcA, vcOrder)
    /\ vcPc' = "done"
    /\ UNCHANGED <<vcA, vcB, vcOrder>>
    /\ UNCHANGED <<rsVars, vfVars, sdVars, syVars, laterVars>>

\* --------------------------------------- _resolve_state_conflict as steps

RsIdle ==
    /\ rsL = EmptyState /\ rsR = EmptyState
    /\ rsPc = "off"
    /\ rsLR = EmptyState /\ rsRL = EmptyState
    /\ rsML = EmptyState /\ rsMR = EmptyState

RsInit ==
    /\ rsL \in Snapshots
    /\ rsR \in Snapshots
    /\ rsPc = "ready"
    /\ rsLR = EmptyState /\ rsRL = EmptyState
    /\ rsML = EmptyState /\ rsMR = EmptyState

\* Each of the two peers resolves its own snapshot against the other's.
Resolve ==
    /\ rsPc = "ready"
    /\ rsLR' = ResolveStateConflict(rsL, rsR)
    /\ rsRL' = ResolveStateConflict(rsR, rsL)
    /\ rsPc' = "resolved"
    /\ UNCHANGED <<rsL, rsR, rsML, rsMR>>
    /\ UNCHANGED <<vcVars, vfVars, sdVars, syVars, laterVars>>

\* The holder of the result reconciles it again with each input.
ResolveAgain ==
    /\ rsPc = "resolved"
    /\ rsML' = ResolveStateConflict(rsLR, rsL)
    /\ rsMR' = ResolveStateConflict(rsLR, rsR)
    /\ rsPc' = "again"
    /\ UNCHANGED <<rsL, rsR, rsLR, rsRL>>
    /\ UNCHANGED <<vcVars, vfVars, sdVars, syVars, laterVars>>

\* ---------------------------------------- _verify_state_integrity as a step

VfIdle ==
    /\ vfIsDict = TRUE /\ vfData = EmptyClock
    /\ vfPc = "off" /\ vfRes = "none"

VfInit ==
    /\ vfIsDict \in BOOLEAN
    /\ vfData \in Payloads
    /\ (~vfIsDict => vfData = EmptyClock)
    /\ vfPc = "ready" /\ vfRes = "none"

Verify ==
    /\ vfPc = "ready"
    /\ vfRes' = VerifyStateIntegrity(vfIsDict, vfData)
    /\ vfPc' = "done"
    /\ UNCHANGED <<vfIsDict, vfData>>
    /\ UNCHANGED <<vcVars, rsVars, sdVars, syVars, laterVars>>

\* ----------------------------------------------------------- _send_to_node

SdInit ==
    /\ sdPc = "idle" /\ sdAttempt = 0
    /\ sdTarget = "none" /\ sdMsg = NoMessage
    /\ sdOutcomes = <<>> /\ sdSleeps = <<>>

\* The call _send_to_node(node, message_data): attempt = 0 of the loop.
SendStart(node, message_data) ==
    /\ sdPc' = "connect"
    /\ sdAttempt' = 0
    /\ sdTarget' = node
    /\ sdMsg' = message_data
    /\ sdOutcomes' = <<>>
    /\ sdSleeps' = <<>>

\* An attempt opens the connection, writes, drains and closes: return.
AttemptSucceeds ==
    /\ sdPc = "connect"
    /\ sdOutcomes' = Append(sdOutcomes, "ok")
    /\ sdPc' = "returned"
    /\ UNCHANGED <<sdAttempt, sdTarget, sdMsg, sdSleeps>>
    /\ UNCHANGED <<vcVars, rsVars, vfVars, syVars, laterVars>>

\* Variant: the sleep is taken before the check for the last attempt.
AttemptFails_SleepAlways ==
    /\ sdPc = "connect"
    /\ sdOutcomes' = Append(sdOutcomes, "fail")
    /\ sdSleeps' = Append(sdSleeps, BaseDelay * (sdAttempt + 1))
    /\ sdPc' = IF sdAttempt = MaxRetries - 1 THEN "raised" ELSE "sleep"
    /\ UNCHANGED <<sdAttempt, sdTarget, sdMsg>>
    /\ UNCHANGED <<vcVars, rsVars, vfVars, syVars, laterVars>>

\* Variant: no raise after the last attempt, the call returns.
AttemptFails_NoRaise ==
    /\ sdPc = "connect"
    /\ sdOutcomes' = Append(sdOutcomes, "fail")
    /\ IF sdAttempt = MaxRetries - 1
       THEN /\ sdPc' = "returned"
            /\ UNCHANGED sdSleeps
       ELSE /\ sdPc' = "sleep"
            /\ sdSleeps' = Append(sdSleeps, BaseDelay * (sdAttempt + 1))
    /\ UNCHANGED <<sdAttempt, sdTarget, sdMsg>>
    /\ UNCHANGED <<vcVars, rsVars, vfVars, syVars, laterVars>>

\* A statement of the attempt raises: NetworkError on the last attempt,
\* otherwise the sleep of 1 * (attempt + 1) begins.
AttemptFails ==
    /\ sdPc = "connect"
    /\ sdOutcomes' = Append(sdOutcomes, "fail")
    /\ IF sdAttempt = MaxRetries - 1
       THEN /\ sdPc' = "raised"
            /\ UNCHANGED sdSleeps
       ELSE /\ sdPc' = "sleep"
            /\ sdSleeps' = Append(sdSleeps, BaseDelay * (sdAttempt + 1))
    /\ UNCHANGED <<sdAttempt, sdTarget, sdMsg>>
    /\ UNCHANGED <<vcVars, rsVars, vfVars, syVars, laterVars>>

\* The sleep ends and the loop takes its next attempt.
SleepEnds ==
    /\ sdPc = "sleep"
    /\ sdAttempt' = sdAttempt + 1
    /\ sdPc' = "connect"
    /\ UNCHANGED <<sdTarget, sdMsg, sdOutcomes, sdSleeps>>
    /\ UNCHANGED <<vcVars, rsVars, vfVars, syVars, laterVars>>

\* -------------------------------------------------------- synchronize_state

SyIdle ==
    /\ syPc = "off" /\ syPeer = "none" /\ syLocal = EmptyState
    /\ syAck = NoAck /\ syTimedOut = FALSE
    /\ sySends = <<>> /\ syHandled = <<>> /\ syRuns = 0

SyInit ==
    /\ syPc = "idle" /\ syPeer = "none"
    /\ syLocal \in LocalStates
    /\ syAck = NoAck /\ syTimedOut = FALSE
    /\ sySends = <<>> /\ syHandled = <<>> /\ syRuns = 0

\* send_message(MessageType.STATE, payload, recipient): the call is recorded
\* and the message is handed to _send_to_node for the recipient's node.
SendMessage(sends, payload, recipient) ==
    /\ sySends' = Append(sends, [payload |-> payload, recipient |-> recipient])
    /\ SendStart(recipient, payload)

\* _handle_sync_timeout(peer_id): the invocation is recorded.
HandleSyncTimeout(peer_id) == syHandled' = Append(syHandled, peer_id)

\* A caller starts synchronize_state(peer_id): the local state is read and
\* the prepare message is sent.
SyncCall ==
    /\ syPc \in {"idle", "returned", "raised"}
    /\ syRuns < MaxRuns
    /\ \E peer_id \in PeerIds :
        /\ syPeer' = peer_id
        /\ SendMessage(<<>>, [phase |-> "prepare", state |-> syLocal], peer_id)
    /\ syPc' = "prepare"
    /\ syAck' = NoAck
    /\ syTimedOut' = FALSE
    /\ syHandled' = <<>>
    /\ syRuns' = syRuns + 1
    /\ UNCHANGED syLocal
    /\ UNCHANGED <<vcVars, rsVars, vfVars, laterVars>>

\* send_message returned for the prepare message: the wait for the
\* acknowledgment begins.
PrepareSent ==
    /\ syPc = "prepare" /\ sdPc = "returned"
    /\ syPc' = "wait_ack"
    /\ sdPc' = "idle"
    /\ UNCHANGED <<sdAttempt, sdTarget, sdMsg, sdOutcomes, sdSleeps>>
    /\ UNCHANGED <<syPeer, syLocal, syAck, syTimedOut, sySends, syHandled, syRuns>>
    /\ UNCHANGED <<vcVars, rsVars, vfVars, laterVars>>

\* send_message raised NetworkError: nothing in synchronize_state catches
\* it, for the prepare message (outside the try) or the commit message.
SendRaises ==
    /\ syPc \in {"prepare", "commit"} /\ sdPc = "raised"
    /\ syPc' = "raised"
    /\ sdPc' = "idle"
    /\ UNCHANGED <<sdAttempt, sdTarget, sdMsg, sdOutcomes, sdSleeps>>
    /\ UNCHANGED <<syPeer, syLocal, syAck, syTimedOut, sySends, syHandled, syRuns>>
    /\ UNCHANGED <<vcVars, rsVars, vfVars, laterVars>>

\* Variant: the commit message is sent whatever the status.
AckReceived_NoStatusCheck ==
    /\ syPc = "wait_ack"
    /\ \E ack \in WaitForSyncAck :
        /\ syAck' = ack
        /\ syPc' = "commit"
        /\ SendMessage(sySends,
                       [phase |-> "commit", sync_id |-> ack.sync_id], syPeer)
    /\ UNCHANGED <<syPeer, syLocal, syTimedOut, syHandled, syRuns>>
    /\ UNCHANGED <<vcVars, rsVars, vfVars, laterVars>>

\* _wait_for_sync_ack returns an acknowledgment: the commit message is sent
\* when its status is ready, and the call returns otherwise.
AckReceived ==
    /\ syPc = "wait_ack"
    /\ \E ack \in WaitForSyncAck :
        /\ syAck' = ack
        /\ IF ack.status = "ready"
           THEN /\ syPc' = "commit"
                /\ SendMessage(sySends,
                               [phase |-> "commit", sync_id |-> ack.sync_id],
                               syPeer)
           ELSE /\ syPc' = "returned"
                /\ UNCHANGED <<sySends, sdVars>>
    /\ UNCHANGED <<syPeer, syLocal, syTimedOut, syHandled, syRuns>>
    /\ UNCHANGED <<vcVars, rsVars, vfVars, laterVars>>

\* Variant: the prepare message is sent again after the timeout.
AckTimesOut_Retry ==
    /\ syPc = "wait_ack"
    /\ syTimedOut' = TRUE
    /\ HandleSyncTimeout(syPeer)
    /\ syPc' = "prepare"
    /\ SendMessage(sySends, [phase |-> "prepare", state |-> syLocal], syPeer)
    /\ UNCHANGED <<syPeer, syLocal, syAck, syRuns>>
    /\ UNCHANGED <<vcVars, rsVars, vfVars, laterVars>>

\* _wait_for_sync_ack raises TimeoutError: the warning is logged,
\* _handle_sync_timeout(peer_id) is invoked and the call returns.
AckTimesOut ==
    /\ syPc = "wait_ack"
    /\ syTimedOut' = TRUE
    /\ HandleSyncTimeout(syPeer)
    /\ syPc' = "returned"
    /\ UNCHANGED <<syPeer, syLocal, syAck, sySends, syRuns>>
    /\ UNCHANGED sdVars
    /\ UNCHANGED <<vcVars, rsVars, vfVars, laterVars>>

\* send_message returned for the commit message: synchronize_state returns.
CommitSent ==
    /\ syPc = "commit" /\ sdPc = "returned"
    /\ syPc' = "returned"
    /\ sdPc' = "idle"
    /\ UNCHANGED <<sdAttempt, sdTarget, sdMsg, sdOutcomes, sdSleeps>>
    /\ UNCHANGED <<syPeer, syLocal, syAck, syTimedOut, sySends, syHandled, syRuns>>
    /\ UNCHANGED <<vcVars, rsVars, vfVars, laterVars>>

\* ------------------------------------------------------------ metrics

MtInit ==
    /\ failed_messages = 0 /\ sent_messages = 0 /\ delivered_messages = 0
    /\ bytes_sent = 0
    /\ latency_samples = <<>> /\ latProfile = "none" /\ latCount = 0

mtFrame ==
    <<vcVars, rsVars, vfVars, sdVars, syVars, bcVars, tkVars, crVars, rgVars,
      lpVars, ccVars,
      mnVars, txVars,
      cvVars,
      sbVars,
      qVars>>

\* get_average_latency()
GetAverageLatency ==
    IF latency_samples = <<>> THEN None ELSE Mean(latency_samples)

\* Variant: the rate counts the messages that did not fail.
GetDeliveryRate_NotFailed ==
    IF sent_messages = 0 THEN One
    ELSE Frac(sent_messages - failed_messages, sent_messages)

\* get_delivery_rate()
GetDeliveryRate ==
    IF sent_messages = 0 THEN One
    ELSE Frac(delivered_messages, sent_messages)

\* The health_score entry of get_network_health().
HealthScore == CalculateHealthScore(GetAverageLatency, GetDeliveryRate)

\* NetworkMetrics.record_message_failed.  No statement of _send_to_node
\* calls it.
RecordMessageFailed ==
    /\ failed_messages < MaxFailed
    /\ failed_messages' = failed_messages + 1
    /\ UNCHANGED <<sent_messages, delivered_messages, bytes_sent,
                   latency_samples, latProfile, latCount>>
    /\ UNCHANGED mtFrame

\* NetworkMetrics.record_message_sent(size_bytes)
RecordMessageSent ==
    /\ sent_messages < MaxMessages
    /\ sent_messages' = sent_messages + 1
    /\ \E size_bytes \in MessageSizes : bytes_sent' = bytes_sent + size_bytes
    /\ UNCHANGED <<failed_messages, delivered_messages,
                   latency_samples, latProfile, latCount>>
    /\ UNCHANGED mtFrame

\* NetworkMetrics.record_message_delivered()
RecordMessageDelivered ==
    /\ delivered_messages < MaxMessages
    /\ delivered_messages' = delivered_messages + 1
    /\ UNCHANGED <<failed_messages, sent_messages, bytes_sent,
                   latency_samples, latProfile, latCount>>
    /\ UNCHANGED mtFrame

\* NetworkMetrics.add_latency_sample(latency_ms)
AddLatencySample ==
    /\ latCount < MaxSamples
    /\ \E profile \in Profiles :
        /\ latProfile \in {"none", profile}
        /\ latProfile' = profile
        /\ latency_samples' =
              DequeAppend(latency_samples, SampleOf(profile, latCount + 1))
    /\ latCount' = latCount + 1
    /\ UNCHANGED <<failed_messages, sent_messages, delivered_messages,
                   bytes_sent>>
    /\ UNCHANGED mtFrame

\* ---------------------------------------------------------- a broadcast

BcInit ==
    /\ bcPc = "idle" /\ bcActive = {} /\ bcTodo = {}
    /\ bcDelivered = {} /\ bcFailed = {}
    /\ bcOutcomes = [n \in {} |-> <<>>]

BroadcastMessage == [phase |-> "broadcast"]

bcFrame ==
    <<vcVars, rsVars, vfVars, syVars, mtVars, tkVars, crVars, rgVars, lpVars,
      ccVars,
      mnVars, txVars,
      cvVars,
      sbVars,
      qVars>>

\* send_message with no recipient: the message goes to every active node.
BroadcastCall ==
    /\ bcPc = "idle"
    /\ \E active \in (SUBSET NodeIds) \ {{}} :
        /\ bcActive' = active
        /\ bcTodo' = active
    /\ bcPc' = "next"
    /\ UNCHANGED <<bcDelivered, bcFailed, bcOutcomes>>
    /\ UNCHANGED <<sdVars, bcFrame>>

\* The next outbound copy is routed through _send_to_node.
BroadcastNext ==
    /\ bcPc = "next"
    /\ \E node \in bcTodo :
        /\ SendStart(node, BroadcastMessage)
        /\ bcTodo' = bcTodo \ {node}
    /\ bcPc' = "sending"
    /\ UNCHANGED <<bcActive, bcDelivered, bcFailed, bcOutcomes>>
    /\ UNCHANGED bcFrame

\* _send_to_node returned for the target.
BroadcastDelivered ==
    /\ bcPc = "sending" /\ sdPc = "returned"
    /\ bcDelivered' = bcDelivered \cup {sdTarget}
    /\ bcOutcomes' = [n \in (DOMAIN bcOutcomes) \cup {sdTarget} |->
                        IF n = sdTarget THEN sdOutcomes ELSE bcOutcomes[n]]
    /\ bcPc' = "next"
    /\ sdPc' = "idle"
    /\ UNCHANGED <<sdAttempt, sdTarget, sdMsg, sdOutcomes, sdSleeps>>
    /\ UNCHANGED <<bcActive, bcTodo, bcFailed>>
    /\ UNCHANGED bcFrame

\* _send_to_node raised NetworkError for the target: the failure is
\* reported for that target and the broadcast goes on.
BroadcastFailed ==
    /\ bcPc = "sending" /\ sdPc = "raised"
    /\ bcFailed' = bcFailed \cup {sdTarget}
    /\ bcOutcomes' = [n \in (DOMAIN bcOutcomes) \cup {sdTarget} |->
                        IF n = sdTarget THEN sdOutcomes ELSE bcOutcomes[n]]
    /\ bcPc' = "next"
    /\ sdPc' = "idle"
    /\ UNCHANGED <<sdAttempt, sdTarget, sdMsg, sdOutcomes, sdSleeps>>
    /\ UNCHANGED <<bcActive, bcTodo, bcDelivered>>
    /\ UNCHANGED bcFrame

\* Every target was sent to: send_message returns.
BroadcastDone ==
    /\ bcPc = "next" /\ bcTodo = {}
    /\ bcPc' = "done"
    /\ UNCHANGED <<bcActive, bcTodo, bcDelivered, bcFailed, bcOutcomes>>
    /\ UNCHANGED <<sdVars, bcFrame>>

\* ---------------------------------------------------------- agent tokens

TkInit ==
    /\ agentKeys = NoKeys
    /\ tkNext = 1
    /\ tkIssued = [id \in AgentIds |-> {}]
    /\ tkQuery = NoQuery /\ tkBefore = NoKeys /\ tkRes = "none"

tkFrame ==
    <<vcVars, rsVars, vfVars, sdVars, syVars, mtVars, bcVars, crVars, rgVars,
      lpVars, ccVars,
      mnVars, txVars,
      cvVars,
      sbVars,
      qVars>>

\* create_agent_token(agent_id): a fresh token replaces the stored one.
CreateAgentToken ==
    /\ tkNext <= MaxTokens
    /\ \E agent_id \in AgentIds :
        /\ agentKeys' = [id \in (DOMAIN agentKeys) \cup {agent_id} |->
                            IF id = agent_id THEN tkNext ELSE agentKeys[id]]
        /\ tkIssued' = [tkIssued EXCEPT ![agent_id] = @ \cup {tkNext}]
    /\ tkNext' = tkNext + 1
    /\ tkQuery' = NoQuery /\ tkBefore' = NoKeys /\ tkRes' = "none"
    /\ UNCHANGED tkFrame

\* verify_agent_token(agent_id, token) for any id and any presented text.
VerifyAgentTokenCall ==
    /\ \E agent_id \in AgentIds, token \in TokenTexts :
        /\ tkQuery' = [agent_id |-> agent_id, token |-> token]
        /\ tkRes' = VerifyAgentToken(agentKeys, agent_id, token)
    /\ tkBefore' = agentKeys
    /\ UNCHANGED <<agentKeys, tkNext, tkIssued>>
    /\ UNCHANGED tkFrame

\* ---------------------------------------------------- message encryption

CrInit ==
    /\ crPayload = NoPayload /\ crEncBy = "none" /\ crCt = NoCiphertext
    /\ crTampered = FALSE /\ crDecBy = "none"
    /\ crRes = "none" /\ crOut = NoPayload

crFrame ==
    <<vcVars, rsVars, vfVars, sdVars, syVars, mtVars, bcVars, tkVars, rgVars,
      lpVars, ccVars,
      mnVars, txVars,
      cvVars,
      sbVars,
      qVars>>

\* encrypt_message(data) on one of the instances.
EncryptCall ==
    /\ crRes = "none"
    /\ \E inst \in Instances, data \in MessagePayloads, iv \in FernetIvs :
        LET e == EncryptMessage(inst, iv, data)
        IN  /\ crPayload' = data
            /\ crEncBy' = inst
            /\ crCt' = IF e.ok THEN e.ct ELSE NoCiphertext
            /\ crRes' = IF e.ok THEN "encrypted" ELSE "TypeError"
    /\ UNCHANGED <<crTampered, crDecBy, crOut>>
    /\ UNCHANGED crFrame

\* The ciphertext is altered on its way.
Tamper ==
    /\ crRes = "encrypted" /\ ~crTampered
    /\ \E t \in Tamperings(crCt) : crCt' = t
    /\ crTampered' = TRUE
    /\ UNCHANGED <<crPayload, crEncBy, crDecBy, crRes, crOut>>
    /\ UNCHANGED crFrame

\* decrypt_message(encrypted_data) on one of the instances.
DecryptCall ==
    /\ crRes = "encrypted"
    /\ \E inst \in Instances :
        LET d == DecryptMessage(inst, crCt)
        IN  /\ crDecBy' = inst
            /\ crRes' = IF d.ok THEN "payload" ELSE "InvalidToken"
            /\ crOut' = IF d.ok THEN d.data ELSE NoPayload
    /\ UNCHANGED <<crPayload, crEncBy, crCt, crTampered>>
    /\ UNCHANGED crFrame

\* ------------------------------------------------------ the node registry

RgInit ==
    /\ now = 0
    /\ nodes = NoNodes
    /\ seenAt = [id \in AgentIds |-> NeverSeen]
    /\ rgLast = "none" /\ rgArgs = NoArgs /\ rgOverwrote = FALSE

rgFrame ==
    <<vcVars, rsVars, vfVars, sdVars, syVars, mtVars, bcVars, tkVars, crVars,
      ccVars,
      mnVars, txVars,
      cvVars,
      sbVars,
      qVars>>

\* Variant: an id already in the registry keeps its node.
RegisterNode_KeepFirst ==
    /\ \E agent_id \in AgentIds, host \in Hosts, port \in Ports,
          capabilities \in CapabilitySets :
        /\ nodes' = [id \in (DOMAIN nodes) \cup {agent_id} |->
                        IF id \in DOMAIN nodes THEN nodes[id]
                        ELSE NetworkNode(agent_id, host, port, capabilities, now)]
        /\ seenAt' = [seenAt EXCEPT ![agent_id] = now]
        /\ rgArgs' = [agent_id |-> agent_id, host |-> host, port |-> port,
                      capabilities |-> capabilities]
        /\ rgOverwrote' = (agent_id \in DOMAIN nodes)
    /\ rgLast' = "register"
    /\ UNCHANGED now
    /\ UNCHANGED <<rgFrame, lpVars>>

\* register_node(agent_id, host, port, capabilities).
RegisterNode ==
    /\ \E agent_id \in AgentIds, host \in Hosts, port \in Ports,
          capabilities \in CapabilitySets :
        /\ nodes' = [id \in (DOMAIN nodes) \cup {agent_id} |->
                        IF id = agent_id
                        THEN NetworkNode(agent_id, host, port, capabilities, now)
                        ELSE nodes[id]]
        /\ seenAt' = [seenAt EXCEPT ![agent_id] = now]
        /\ rgArgs' = [agent_id |-> agent_id, host |-> host, port |-> port,
                      capabilities |-> capabilities]
        /\ rgOverwrote' = (agent_id \in DOMAIN nodes)
    /\ rgLast' = "register"
    /\ UNCHANGED now
    /\ UNCHANGED <<rgFrame, lpVars>>

\* Time passes.
Tick ==
    /\ \E step \in TickSteps :
        /\ now + step <= MaxTime
        /\ now' = now + step
    /\ rgLast' = "tick"
    /\ UNCHANGED <<nodes, seenAt, rgArgs, rgOverwrote>>
    /\ UNCHANGED <<rgFrame, lpVars>>

\* ------------------------------------------------------ background loops

LpInit ==
    /\ lpPc = [loop \in Loops |-> "none"]
    /\ lpCancel = [loop \in Loops |-> FALSE]
    /\ lpCancelledAt = [loop \in Loops |-> "none"]
    /\ lpErrors = [loop \in Loops |-> 0]
    /\ lpSleep = [loop \in Loops |-> 0]
    /\ dsPc = "new" /\ monPc = "new"

Ended == {"finished", "cancelled"}

\* DiscoveryService.start: one task per loop.
DiscoveryStart ==
    /\ dsPc = "new"
    /\ lpPc' = [loop \in Loops |->
                   IF loop \in DiscoveryTasks THEN "created" ELSE lpPc[loop]]
    /\ dsPc' = "started"
    /\ UNCHANGED <<lpCancel, lpCancelledAt, lpErrors, lpSleep, monPc>>
    /\ UNCHANGED <<rgFrame, rgVars>>

\* NetworkMonitor.start_monitoring.
MonitorStart ==
    /\ monPc = "new"
    /\ lpPc' = [lpPc EXCEPT !["monitor"] = "created"]
    /\ monPc' = "started"
    /\ UNCHANGED <<lpCancel, lpCancelledAt, lpErrors, lpSleep, dsPc>>
    /\ UNCHANGED <<rgFrame, rgVars>>

\* A task runs for the first time, or its sleep or pause ends: the loop
\* body starts over with the awaited work of the iteration.
IterationStarts ==
    /\ \E loop \in Loops :
        /\ lpPc[loop] \in {"created", "sleep", "pause"}
        /\ ~lpCancel[loop]
        /\ lpPc' = [lpPc EXCEPT ![loop] = "work"]
    /\ UNCHANGED <<lpCancel, lpCancelledAt, lpErrors, lpSleep, dsPc, monPc>>
    /\ UNCHANGED <<rgFrame, rgVars>>

\* The broadcast of the discovery loop completes: the periodic sleep
\* follows.
WorkCompletes ==
    /\ \E loop \in Loops \ {"health", "monitor"} :
        /\ lpPc[loop] = "work"
        /\ ~lpCancel[loop]
        /\ lpPc' = [lpPc EXCEPT ![loop] = "sleep"]
        /\ lpSleep' = [lpSleep EXCEPT ![loop] = Interval(loop)]
    /\ UNCHANGED <<lpCancel, lpCancelledAt, lpErrors, dsPc, monPc>>
    /\ UNCHANGED <<rgFrame, rgVars>>

\* The probe of the health-check loop completes: the registry is brought
\* up to date and the periodic sleep follows.
HealthCheckRuns ==
    /\ lpPc["health"] = "work"
    /\ ~lpCancel["health"]
    /\ \E responsive \in SUBSET (DOMAIN nodes) :
        /\ nodes' = CheckNodesHealth(nodes, now, responsive)
        /\ seenAt' = [id \in AgentIds |->
                         IF id \in responsive THEN now ELSE seenAt[id]]
    /\ rgLast' = "check"
    /\ lpPc' = [lpPc EXCEPT !["health"] = "sleep"]
    /\ lpSleep' = [lpSleep EXCEPT !["health"] = Interval("health")]
    /\ UNCHANGED <<now, rgArgs, rgOverwrote>>
    /\ UNCHANGED <<lpCancel, lpCancelledAt, lpErrors, dsPc, monPc>>
    /\ UNCHANGED rgFrame

\* Variant: an error ends the loop.
WorkRaises_Ends ==
    /\ \E loop \in Loops :
        /\ lpPc[loop] = "work"
        /\ ~lpCancel[loop]
        /\ lpErrors[loop] < MaxErrors
        /\ lpErrors' = [lpErrors EXCEPT ![loop] = @ + 1]
        /\ lpPc' = [lpPc EXCEPT ![loop] = "finished"]
    /\ UNCHANGED <<lpCancel, lpCancelledAt, lpSleep, dsPc, monPc>>
    /\ UNCHANGED <<rgFrame, rgVars>>

\* The work of an iteration raises an exception other than cancellation:
\* it is caught and logged, and the pause of the handler follows.
WorkRaises ==
    /\ \E loop \in Loops :
        /\ lpPc[loop] = "work"
        /\ ~lpCancel[loop]
        /\ lpErrors[loop] < MaxErrors
        /\ lpErrors' = [lpErrors EXCEPT ![loop] = @ + 1]
        /\ lpPc' = [lpPc EXCEPT ![loop] = "pause"]
        /\ lpSleep' = [lpSleep EXCEPT ![loop] = ErrorPause]
    /\ UNCHANGED <<lpCancel, lpCancelledAt, dsPc, monPc>>
    /\ UNCHANGED <<rgFrame, rgVars>>

\* A requested cancellation reaches the task where it waits.  Inside the
\* try block CancelledError is caught and the loop breaks; before the
\* first run, or in the pause of the handler, the task ends cancelled.
CancelDelivered ==
    /\ \E loop \in Loops :
        /\ lpCancel[loop]
        /\ lpPc[loop] \in {"created", "work", "sleep", "pause"}
        /\ lpPc' = [lpPc EXCEPT ![loop] =
                       IF lpPc[loop] \in {"work", "sleep"}
                       THEN "finished" ELSE "cancelled"]
        /\ lpCancelledAt' = [lpCancelledAt EXCEPT ![loop] = lpPc[loop]]
        /\ lpCancel' = [lpCancel EXCEPT ![loop] = FALSE]
    /\ UNCHANGED <<lpErrors, lpSleep, dsPc, monPc>>
    /\ UNCHANGED <<rgFrame, rgVars>>

Running(loop) == lpPc[loop] \notin Ended \cup {"none"}

\* DiscoveryService.stop up to its await: every task is cancelled.
DiscoveryStop ==
    /\ dsPc \in {"new", "started"}
    /\ lpCancel' = [loop \in Loops |->
                       IF loop \in DiscoveryTasks /\ Running(loop)
                       THEN TRUE ELSE lpCancel[loop]]
    /\ dsPc' = "stopping"
    /\ UNCHANGED <<lpPc, lpCancelledAt, lpErrors, lpSleep, monPc>>
    /\ UNCHANGED <<rgFrame, rgVars>>

\* Variant: stop returns without the gather.
DiscoveryStopReturns_NoGather ==
    /\ dsPc = "stopping"
    /\ dsPc' = "stopped"
    /\ UNCHANGED <<lpPc, lpCancel, lpCancelledAt, lpErrors, lpSleep, monPc>>
    /\ UNCHANGED <<rgFrame, rgVars>>

\* The gather of stop completes once every task has ended, whether it
\* returned or was cancelled, and stop returns.
DiscoveryStopReturns ==
    /\ dsPc = "stopping"
    /\ \A loop \in DiscoveryTasks : ~Running(loop)
    /\ dsPc' = "stopped"
    /\ UNCHANGED <<lpPc, lpCancel, lpCancelledAt, lpErrors, lpSleep, monPc>>
    /\ UNCHANGED <<rgFrame, rgVars>>

\* NetworkMonitor.stop_monitoring up to its await.  Without a monitoring
\* task the call returns at once.
MonitorStop ==
    /\ monPc \in {"new", "started"}
    /\ IF monPc = "new"
       THEN /\ monPc' = "stopped"
            /\ UNCHANGED lpCancel
       ELSE /\ monPc' = "stopping"
            /\ lpCancel' = [lpCancel EXCEPT !["monitor"] = Running("monitor")]
    /\ UNCHANGED <<lpPc, lpCancelledAt, lpErrors, lpSleep, dsPc>>
    /\ UNCHANGED <<rgFrame, rgVars>>

\* The awaited monitoring task has ended; its CancelledError, if any, is
\* swallowed and stop_monitoring returns.
MonitorStopReturns ==
    /\ monPc = "stopping"
    /\ ~Running("monitor")
    /\ monPc' = "stopped"
    /\ UNCHANGED <<lpPc, lpCancel, lpCancelledAt, lpErrors, lpSleep, dsPc>>
    /\ UNCHANGED <<rgFrame, rgVars>>

\* ------------------------------------- concurrent synchronize_state calls

CallIds == {"c1", "c2"}
SendOutcomes == {"returned", "raised"}
NoAnswer == [peer |-> "none", sync_id |-> 0, status |-> "none", answers |-> "none"]

CcInit ==
    /\ ccPc = [call \in CallIds |-> "idle"]
    /\ ccPeer = [call \in CallIds |-> "none"]
    /\ ccPrepares = {} /\ ccAcks = {} /\ ccNext = 1
    /\ ccGot = [call \in CallIds |-> NoAnswer]
    /\ ccCommits = {}
    /\ ccHandled = [call \in CallIds |-> FALSE]
    /\ ccOverlap = FALSE

ccFrame ==
    <<vcVars, rsVars, vfVars, sdVars, syVars, mtVars, bcVars, tkVars, crVars,
      rgVars, lpVars,
      mnVars, txVars,
      cvVars,
      sbVars,
      qVars>>

\* A call of synchronize_state(peer_id) up to its wait: the prepare message
\* is sent, or send_message raises and so does the call.
ConcurrentSyncCall ==
    /\ \E call \in CallIds, peer_id \in PeerIds, sent \in SendOutcomes :
        /\ ccPc[call] = "idle"
        /\ ccPeer' = [ccPeer EXCEPT ![call] = peer_id]
        /\ IF sent = "returned"
           THEN /\ ccPc' = [ccPc EXCEPT ![call] = "wait_ack"]
                /\ ccPrepares' = ccPrepares \cup
                                    {[call |-> call, peer |-> peer_id]}
                /\ ccOverlap' = (ccOverlap \/
                                  \E other \in CallIds \ {call} :
                                      ccPc[other] = "wait_ack")
           ELSE /\ ccPc' = [ccPc EXCEPT ![call] = "raised"]
                /\ UNCHANGED <<ccPrepares, ccOverlap>>
    /\ UNCHANGED <<ccAcks, ccNext, ccGot, ccCommits, ccHandled>>
    /\ UNCHANGED ccFrame

\* The peer answers one prepare message with an acknowledgment that
\* carries a sync id of its own making.
PeerAnswers ==
    /\ \E prepare \in ccPrepares, status \in {"ready", "rejected"} :
        /\ ccAcks' = ccAcks \cup
                        {[peer |-> prepare.peer, sync_id |-> ccNext,
                          status |-> status, answers |-> prepare.call]}
        /\ ccPrepares' = ccPrepares \ {prepare}
    /\ ccNext' = ccNext + 1
    /\ UNCHANGED <<ccPc, ccPeer, ccGot, ccCommits, ccHandled, ccOverlap>>
    /\ UNCHANGED ccFrame

\* _wait_for_sync_ack(peer_id) returns to a waiting call an acknowledgment
\* that came from peer_id; the commit message follows when it says ready.
ConcurrentAckReceived ==
    /\ \E call \in CallIds, ack \in ccAcks, sent \in SendOutcomes :
        /\ ccPc[call] = "wait_ack"
        /\ ack.peer = ccPeer[call]
        /\ ccAcks' = ccAcks \ {ack}
        /\ ccGot' = [ccGot EXCEPT ![call] = ack]
        /\ IF ack.status = "ready"
           THEN /\ ccCommits' = ccCommits \cup
                                   {[call |-> call, peer |-> ccPeer[call],
                                     sync_id |-> ack.sync_id]}
                /\ ccPc' = [ccPc EXCEPT ![call] = sent]
           ELSE /\ sent = "returned"
                /\ ccPc' = [ccPc EXCEPT ![call] = "returned"]
                /\ UNCHANGED ccCommits
    /\ UNCHANGED <<ccPeer, ccPrepares, ccNext, ccHandled, ccOverlap>>
    /\ UNCHANGED ccFrame

\* _wait_for_sync_ack raises TimeoutError in a waiting call.
ConcurrentAckTimesOut ==
    /\ \E call \in CallIds :
        /\ ccPc[call] = "wait_ack"
        /\ ccHandled' = [ccHandled EXCEPT ![call] = TRUE]
        /\ ccPc' = [ccPc EXCEPT ![call] = "returned"]
    /\ UNCHANGED <<ccPeer, ccPrepares, ccAcks, ccNext, ccGot, ccCommits,
                   ccOverlap>>
    /\ UNCHANGED ccFrame

\* ------------------------------------------------- the monitoring loop

\* The score below which the loop alerts, the ways a callback may end, and
\* the number of callbacks one behaviour registers.
AlertThreshold == <<7, 10>>
CallbackKinds == {"returns", "raises"}
MaxCallbacks == 2

MnInit ==
    /\ alert_callbacks = <<>>
    /\ mnAlerted = FALSE /\ mnInvoked = <<>> /\ mnBand = "none"

mnFrame ==
    <<vcVars, rsVars, vfVars, sdVars, syVars, mtVars, bcVars, tkVars, crVars,
      rgVars, ccVars, txVars,
      cvVars,
      sbVars,
      qVars>>

\* add_alert_callback(callback)
AddAlertCallback ==
    /\ Len(alert_callbacks) < MaxCallbacks
    /\ \E callback \in CallbackKinds :
        alert_callbacks' = Append(alert_callbacks, callback)
    /\ UNCHANGED <<mnAlerted, mnInvoked, mnBand>>
    /\ UNCHANGED <<mnFrame, lpVars>>

\* Variant: no try around the callback, the first exception ends the
\* round.
RECURSIVE TriggerHealthAlert_NoTry(_, _)
TriggerHealthAlert_NoTry(callbacks, i) ==
    IF i > Len(callbacks) THEN <<>>
    ELSE IF callbacks[i] = "raises"
         THEN <<[callback |-> i, raised |-> TRUE]>>
         ELSE <<[callback |-> i, raised |-> FALSE]>>
                \o TriggerHealthAlert_NoTry(callbacks, i + 1)

\* _trigger_health_alert from callback i on: every callback is awaited in
\* the order of the list, an exception of one is printed and the next
\* follows.  The result lists the invocations.
RECURSIVE TriggerHealthAlert(_, _)
TriggerHealthAlert(callbacks, i) ==
    IF i > Len(callbacks) THEN <<>>
    ELSE <<[callback |-> i, raised |-> (callbacks[i] = "raises")]>>
           \o TriggerHealthAlert(callbacks, i + 1)

\* Variant: a score equal to the threshold alerts too.
MonitorIteration_AtThreshold ==
    /\ lpPc["monitor"] = "work"
    /\ ~lpCancel["monitor"]
    /\ LET health_score == HealthScore
           alert == ~FracLess(AlertThreshold, health_score)
       IN  /\ mnBand' = IF FracLess(health_score, AlertThreshold) THEN "below"
                        ELSE IF health_score = AlertThreshold THEN "at"
                        ELSE "above"
           /\ mnAlerted' = alert
           /\ mnInvoked' = IF alert THEN TriggerHealthAlert(alert_callbacks, 1)
                           ELSE <<>>
    /\ lpPc' = [lpPc EXCEPT !["monitor"] = "sleep"]
    /\ lpSleep' = [lpSleep EXCEPT !["monitor"] = Interval("monitor")]
    /\ UNCHANGED alert_callbacks
    /\ UNCHANGED <<lpCancel, lpCancelledAt, lpErrors, dsPc, monPc>>
    /\ UNCHANGED mnFrame

\* One iteration of _monitoring_loop: the health is computed, the alert
\* is triggered when the score is below the threshold, and the periodic
\* sleep follows.
MonitorIteration ==
    /\ lpPc["monitor"] = "work"
    /\ ~lpCancel["monitor"]
    /\ LET health_score == HealthScore
           alert == FracLess(health_score, AlertThreshold)
       IN  /\ mnBand' = IF FracLess(health_score, AlertThreshold) THEN "below"
                        ELSE IF health_score = AlertThreshold THEN "at"
                        ELSE "above"
           /\ mnAlerted' = alert
           /\ mnInvoked' = IF alert THEN TriggerHealthAlert(alert_callbacks, 1)
                           ELSE <<>>
    /\ lpPc' = [lpPc EXCEPT !["monitor"] = "sleep"]
    /\ lpSleep' = [lpSleep EXCEPT !["monitor"] = Interval("monitor")]
    /\ UNCHANGED alert_callbacks
    /\ UNCHANGED <<lpCancel, lpCancelledAt, lpErrors, dsPc, monPc>>
    /\ UNCHANGED mnFrame

\* ------------------------------------------------------- the task executor

TxInit ==
    /\ txPc = "new" /\ retry_attempts = 0
    /\ handler = NoHandler /\ handlerCalls = 0
    /\ tasks = NoTasks /\ txLast = NoCall

txFrame ==
    <<vcVars, rsVars, vfVars, sdVars, syVars, mtVars, bcVars, tkVars, crVars,
      rgVars, lpVars, ccVars, mnVars,
      cvVars,
      sbVars,
      qVars>>

\* TaskExecutor(config): the configuration sets retry_attempts.
NewTaskExecutor ==
    /\ txPc = "new"
    /\ retry_attempts' \in 0..MaxRetryAttempts
    /\ txPc' = "ready"
    /\ UNCHANGED <<handler, handlerCalls, tasks, txLast>>
    /\ UNCHANGED txFrame

\* register_handler(task_type, handler): a new handler, not yet called.
RegisterHandler ==
    /\ txPc = "ready"
    /\ handler' \in Handlers
    /\ handlerCalls' = 0
    /\ txLast' = [op |-> "register_handler"]
    /\ UNCHANGED <<txPc, retry_attempts, tasks>>
    /\ UNCHANGED txFrame

\* submit_task(task_type, params) for a type with a handler.
SubmitTask ==
    /\ txPc = "ready"
    /\ handler # NoHandler
    /\ Cardinality(DOMAIN tasks) < MaxTasks
    /\ LET task_id == Cardinality(DOMAIN tasks) + 1
       IN  /\ tasks' = [id \in (DOMAIN tasks) \cup {task_id} |->
                           IF id = task_id THEN NewTask ELSE tasks[id]]
           /\ txLast' = [op |-> "submit_task", task_id |-> task_id]
    /\ UNCHANGED <<txPc, retry_attempts, handler, handlerCalls>>
    /\ UNCHANGED txFrame

\* execute(task_id) for a submitted task.
Execute ==
    /\ txPc = "ready"
    /\ \E task_id \in DOMAIN tasks :
        LET run == ExecuteTask(tasks[task_id], handlerCalls,
                               retry_attempts, handler)
        IN  /\ tasks' = [tasks EXCEPT ![task_id] = run.task]
            /\ handlerCalls' = run.calls
            /\ txLast' = [op |-> "execute", task_id |-> task_id,
                          before |-> tasks[task_id].status,
                          calls_before |-> handlerCalls,
                          calls |-> run.calls - handlerCalls,
                          outcome |-> run.outcome, value |-> run.value]
    /\ UNCHANGED <<txPc, retry_attempts, handler>>
    /\ UNCHANGED txFrame

\* Variant: cancel_task cancels a task whatever its status.
CancelTask_AnyStatus ==
    /\ txPc = "ready"
    /\ \E task_id \in DOMAIN tasks :
        /\ tasks' = [tasks EXCEPT ![task_id].status = "CANCELLED"]
        /\ txLast' = [op |-> "cancel_task", task_id |-> task_id,
                      before |-> tasks[task_id].status]
    /\ UNCHANGED <<txPc, retry_attempts, handler, handlerCalls>>
    /\ UNCHANGED txFrame

\* cancel_task(task_id) for a submitted task.
CancelTask ==
    /\ txPc = "ready"
    /\ \E task_id \in DOMAIN tasks :
        /\ tasks' = [tasks EXCEPT ![task_id].status =
                        IF @ \in {"PENDING", "RUNNING"} THEN "CANCELLED" ELSE @]
        /\ txLast' = [op |-> "cancel_task", task_id |-> task_id,
                      before |-> tasks[task_id].status]
    /\ UNCHANGED <<txPc, retry_attempts, handler, handlerCalls>>
    /\ UNCHANGED txFrame

\* get_status(task_id) for a submitted task.
GetStatus ==
    /\ txPc = "ready"
    /\ \E task_id \in DOMAIN tasks :
        txLast' = [op |-> "get_status", task_id |-> task_id,
                   value |-> tasks[task_id].status]
    /\ UNCHANGED <<txPc, retry_attempts, handler, handlerCalls, tasks>>
    /\ UNCHANGED txFrame

\* get_results(task_id) for a submitted task: the result of a COMPLETED
\* task, None for any other.
GetResults ==
    /\ txPc = "ready"
    /\ \E task_id \in DOMAIN tasks :
        txLast' = [op |-> "get_results", task_id |-> task_id,
                   value |-> IF tasks[task_id].status = "COMPLETED"
                             THEN tasks[task_id].result ELSE "None"]
    /\ UNCHANGED <<txPc, retry_attempts, handler, handlerCalls, tasks>>
    /\ UNCHANGED txFrame

\* ------------------------------------------------------- the conversation

CvInit ==
    /\ cvPc = "new" /\ max_history = 0 /\ max_response_length = 0
    /\ history = <<>> /\ accepted = <<>> /\ cvLast = [op |-> "none"]

cvFrame ==
    <<vcVars, rsVars, vfVars, sdVars, syVars, mtVars, bcVars, tkVars, crVars,
      rgVars, lpVars, ccVars, mnVars, txVars,
      sbVars,
      qVars>>

\* Conversation(config): the configuration sets max_history and
\* max_response_length.
NewConversation ==
    /\ cvPc = "new"
    /\ max_history' \in 0..MaxHistory
    /\ max_response_length' \in ResponseLengths
    /\ cvPc' = "ready"
    /\ UNCHANGED <<history, accepted, cvLast>>
    /\ UNCHANGED cvFrame

\* add_message(message, role).
AddMessageCall ==
    /\ cvPc = "ready"
    /\ Len(accepted) < MaxAccepted
    /\ \E message \in Texts, role \in Roles :
        LET call == AddMessage(history, message, role, max_history)
        IN  /\ history' = call.history
            /\ accepted' = IF call.raised THEN accepted
                            ELSE Append(accepted, [content |-> Strip(message),
                                                   role |-> role])
            /\ cvLast' = [op |-> "add_message", message |-> message,
                          role |-> role, raised |-> call.raised,
                          before |-> history]
    /\ UNCHANGED <<cvPc, max_history, max_response_length>>
    /\ UNCHANGED cvFrame

\* generate_response(user_input).
GenerateResponseCall ==
    /\ cvPc = "ready"
    /\ Len(accepted) + 2 <= MaxAccepted
    /\ \E user_input \in Texts :
        LET call == GenerateResponse(history, user_input, max_history,
                                     max_response_length)
        IN  /\ history' = call.history
            /\ accepted' = accepted \o call.added
            /\ cvLast' = [op |-> "generate_response", message |-> user_input,
                          role |-> "user", raised |-> call.raised,
                          before |-> history]
    /\ UNCHANGED <<cvPc, max_history, max_response_length>>
    /\ UNCHANGED cvFrame

\* get_context(message_count).
GetContextCall ==
    /\ cvPc = "ready"
    /\ \E message_count \in {<<>>} \cup {<<n>> : n \in MessageCounts} :
        cvLast' = [op |-> "get_context", message_count |-> message_count,
                   returned |-> GetContext(history, message_count),
                   before |-> history]
    /\ UNCHANGED <<cvPc, max_history, max_response_length, history, accepted>>
    /\ UNCHANGED cvFrame

\* ------------------------------------------------------------ the sandbox

SbInit ==
    /\ sbPc = "new" /\ permissions = "minimal"
    /\ resource_limits = CHOOSE limits \in ResourceLimits : limits.cpu = 75
    /\ privileged = FALSE /\ enabled = FALSE
    /\ original_limits = NoLimits /\ rlimits = NoLimits
    /\ environ = "unset" /\ sbInitial = NoLimits /\ sbFailed = FALSE
    /\ sbLast = [op |-> "none"] /\ withPc = "outside"

sbFrame ==
    <<vcVars, rsVars, vfVars, sdVars, syVars, mtVars, bcVars, tkVars, crVars,
      rgVars, lpVars, ccVars, mnVars, txVars, cvVars,
      qVars>>

\* Sandbox(permissions, resource_limits) in a process with its limits and
\* with or without the privilege to raise them.
NewSandbox ==
    /\ sbPc = "new"
    /\ permissions' \in PermissionLevels
    /\ resource_limits' \in ResourceLimits
    /\ privileged' \in BOOLEAN
    /\ \E pair \in ProcessLimits :
        /\ rlimits' = [name \in ResourceNames |-> pair]
        /\ sbInitial' = [name \in ResourceNames |-> pair]
    /\ sbPc' = "ready"
    /\ UNCHANGED <<enabled, original_limits, environ, sbFailed, sbLast,
                   withPc>>
    /\ UNCHANGED sbFrame

\* The state apply() leaves: <<enabled, _original_limits, limits, environ,
\* raised>>.
Apply ==
    IF enabled
    THEN [enabled |-> enabled, original |-> original_limits,
          rlimits |-> rlimits, environ |-> environ, raised |-> FALSE]
    ELSE LET set == SetConfiguredLimits(rlimits, resource_limits,
                                        privileged, 1)
             level == ApplyPermissions(permissions, environ)
         IN  IF set.raised
             THEN [enabled |-> FALSE, original |-> rlimits,
                   rlimits |-> set.rlimits, environ |-> environ,
                   raised |-> TRUE]
             ELSE [enabled |-> ~level.raised, original |-> rlimits,
                   rlimits |-> set.rlimits, environ |-> level.environ,
                   raised |-> level.raised]

\* Variant: restore turns the sandbox off and leaves the limits.
Restore_KeepLimits ==
    [enabled |-> FALSE, rlimits |-> rlimits, raised |-> FALSE]

\* The state restore() leaves.
Restore ==
    IF ~enabled
    THEN [enabled |-> enabled, rlimits |-> rlimits, raised |-> FALSE]
    ELSE LET back == RestoreLimits(rlimits, original_limits, privileged, 1)
         IN  [enabled |-> back.raised, rlimits |-> back.rlimits,
              raised |-> back.raised]

\* apply().
ApplyCall ==
    /\ sbPc = "ready"
    /\ enabled' = Apply.enabled
    /\ original_limits' = Apply.original
    /\ rlimits' = Apply.rlimits
    /\ environ' = Apply.environ
    /\ sbFailed' = (sbFailed \/ Apply.raised)
    /\ sbLast' = [op |-> "apply", raised |-> Apply.raised,
                  was_enabled |-> enabled, before |-> rlimits]
    /\ UNCHANGED <<sbPc, permissions, resource_limits, privileged, sbInitial,
                   withPc>>
    /\ UNCHANGED sbFrame

\* restore().
RestoreCall ==
    /\ sbPc = "ready"
    /\ enabled' = Restore.enabled
    /\ rlimits' = Restore.rlimits
    /\ sbFailed' = (sbFailed \/ Restore.raised)
    /\ sbLast' = [op |-> "restore", raised |-> Restore.raised,
                  was_enabled |-> enabled, before |-> rlimits]
    /\ UNCHANGED <<sbPc, permissions, resource_limits, privileged,
                   original_limits, environ, sbInitial, withPc>>
    /\ UNCHANGED sbFrame

\* with sandbox: the interpreter calls __enter__, which contextmanager
\* has wrapped: the call makes a generator-based manager around the
\* function and returns it, and the function's body, apply() in it, does
\* not run.
WithEnter ==
    /\ sbPc = "ready" /\ withPc \in {"outside", "exited"}
    /\ withPc' = "body"
    /\ sbLast' = [op |-> "enter", raised |-> FALSE,
                  was_enabled |-> enabled, before |-> rlimits]
    /\ UNCHANGED <<sbPc, permissions, resource_limits, privileged, enabled,
                   original_limits, rlimits, environ, sbInitial, sbFailed>>
    /\ UNCHANGED sbFrame

\* The body of the with-block ends, normally or by an exception:
\* __exit__ runs restore() and returns False, so an exception of the body
\* goes on unless restore() raises its own.
WithExit ==
    /\ sbPc = "ready" /\ withPc = "body"
    /\ \E ending \in {"normal", "exception"} :
        sbLast' = [op |-> "exit", raised |-> Restore.raised,
                   was_enabled |-> enabled, before |-> rlimits,
                   ending |-> ending,
                   propagated |-> (ending = "exception" /\ ~Restore.raised)]
    /\ enabled' = Restore.enabled
    /\ rlimits' = Restore.rlimits
    /\ sbFailed' = (sbFailed \/ Restore.raised)
    /\ withPc' = "exited"
    /\ UNCHANGED <<sbPc, permissions, resource_limits, privileged,
                   original_limits, environ, sbInitial>>
    /\ UNCHANGED sbFrame

\* ------------------------------------------------------------ the task queue

QInit ==
    /\ queue = <<>> /\ task_map = {} /\ qCalled = {} /\ qPopped = <<>>
    /\ qLast = [op |-> "none"]

qFrame ==
    <<vcVars, rsVars, vfVars, sdVars, syVars, mtVars, bcVars, tkVars, crVars,
      rgVars, lpVars, ccVars, mnVars, txVars, cvVars, sbVars>>

\* push(task) for a task not pushed before.  The body under the lock
\* awaits nothing, so a call that holds the lock runs to its end before
\* any other coroutine runs.
QueuePush ==
    /\ \E task \in QueueTasks :
        /\ task.task_id = task.created_at
        /\ \A other \in qCalled : other.task_id # task.task_id
        /\ LET pushed == HeapPush(queue, task)
           IN  /\ queue' = pushed.heap
               /\ task_map' = IF pushed.raised THEN task_map
                               ELSE task_map \cup {task.task_id}
               /\ qLast' = [op |-> "push", raised |-> pushed.raised,
                             before |-> queue, returned |-> <<>>]
        /\ qCalled' = qCalled \cup {task}
    /\ UNCHANGED qPopped
    /\ UNCHANGED qFrame

\* pop().
QueuePop ==
    /\ LET popped == IF queue = <<>>
                     THEN [raised |-> FALSE, heap |-> queue, item |-> <<>>]
                     ELSE HeapPop(queue)
       IN  /\ queue' = popped.heap
           /\ qPopped' = qPopped \o popped.item
           /\ qLast' = [op |-> "pop", raised |-> popped.raised,
                         before |-> queue, returned |-> popped.item]
    /\ UNCHANGED <<task_map, qCalled>>
    /\ UNCHANGED qFrame

LaterInit ==
    /\ QInit
    /\ SbInit
    /\ CvInit
    /\ TxInit
    /\ MtInit /\ BcInit /\ TkInit /\ CrInit /\ RgInit /\ LpInit /\ CcInit
    /\ MnInit

\* ------------------------------------------------------- specifications

VclockNext == Compare

ResolveNext == Resolve \/ ResolveAgain

VerifyNext == Verify

SendStep == AttemptSucceeds \/ AttemptFails \/ SleepEnds

SyncNext ==
    \/ SyncCall
    \/ AttemptSucceeds
    \/ AttemptFails
    \/ SleepEnds
    \/ PrepareSent
    \/ SendRaises
    \/ AckReceived
    \/ AckTimesOut
    \/ CommitSent

BroadcastNextStep ==
    \/ BroadcastCall
    \/ BroadcastNext
    \/ AttemptSucceeds
    \/ AttemptFails
    \/ SleepEnds
    \/ BroadcastDelivered
    \/ BroadcastFailed
    \/ BroadcastDone

TokenNext == CreateAgentToken \/ VerifyAgentTokenCall

CryptoNext == EncryptCall \/ Tamper \/ DecryptCall

VclockInit == VcInit /\ RsIdle /\ VfIdle /\ SdInit /\ SyIdle /\ LaterInit

ResolveInit == VcIdle /\ RsInit /\ VfIdle /\ SdInit /\ SyIdle /\ LaterInit

VerifyInit == VcIdle /\ RsIdle /\ VfInit /\ SdInit /\ SyIdle /\ LaterInit

SyncInit == VcIdle /\ RsIdle /\ VfIdle /\ SdInit /\ SyInit /\ LaterInit

\* Every part at rest: the state the other specifications start from.
RestInit == VcIdle /\ RsIdle /\ VfIdle /\ SdInit /\ SyIdle /\ LaterInit

\* A broadcast with its deliveries.
SpecBroadcast == RestInit /\ [][BroadcastNextStep]_vars

\* Token issue and verification.
SpecTokens == RestInit /\ [][TokenNext]_vars

RegistryNext ==
    \/ DiscoveryStart
    \/ IterationStarts
    \/ RegisterNode
    \/ Tick
    \/ HealthCheckRuns

\* The node registry under registrations, the clock and the health check.
SpecRegistry == RestInit /\ [][RegistryNext]_vars

LoopsNext ==
    \/ DiscoveryStart
    \/ MonitorStart
    \/ IterationStarts
    \/ WorkCompletes
    \/ HealthCheckRuns
    \/ MonitorIteration
    \/ WorkRaises
    \/ CancelDelivered
    \/ DiscoveryStop
    \/ DiscoveryStopReturns
    \/ MonitorStop
    \/ MonitorStopReturns

\* The background loops with their start, errors, cancellation and stop.
SpecLoops == RestInit /\ [][LoopsNext]_vars

ConcurrentSyncNext ==
    \/ ConcurrentSyncCall
    \/ PeerAnswers
    \/ ConcurrentAckReceived
    \/ ConcurrentAckTimesOut

\* Two synchronize_state calls in flight at once.
SpecSyncConcurrent == RestInit /\ [][ConcurrentSyncNext]_vars

MetricsNext ==
    \/ RecordMessageSent
    \/ RecordMessageDelivered
    \/ RecordMessageFailed
    \/ AddLatencySample

\* The metrics collector under its recording calls.
SpecMetrics == RestInit /\ [][MetricsNext]_vars

MonitorNext ==
    \/ RecordMessageSent
    \/ RecordMessageDelivered
    \/ AddAlertCallback
    \/ MonitorStart
    \/ IterationStarts
    \/ MonitorIteration

\* The monitoring loop over the counters and the registered callbacks.
SpecMonitor == RestInit /\ [][MonitorNext]_vars

TasksNext ==
    \/ NewTaskExecutor
    \/ RegisterHandler
    \/ SubmitTask
    \/ Execute
    \/ CancelTask
    \/ GetStatus
    \/ GetResults

\* The task executor under its calls.
SpecTasks == RestInit /\ [][TasksNext]_vars

ConversationNext ==
    \/ NewConversation
    \/ AddMessageCall
    \/ GenerateResponseCall
    \/ GetContextCall

\* The conversation under its calls.
SpecConversation == RestInit /\ [][ConversationNext]_vars

SandboxNext ==
    \/ NewSandbox
    \/ ApplyCall
    \/ RestoreCall
    \/ WithEnter
    \/ WithExit

\* The sandbox under its calls and as a context manager.
SpecSandbox == RestInit /\ [][SandboxNext]_vars

QueueNext ==
    \/ QueuePush
    \/ QueuePop

\* The task queue under push and pop calls in any order.
SpecQueue == RestInit /\ [][QueueNext]_vars

\* Encryption, alteration in flight and decryption.
SpecCrypto == RestInit /\ [][CryptoNext]_vars

\* The two comparisons of a pair of vector clocks.
SpecVclock == VclockInit /\ [][VclockNext]_vars

\* The reconciliation of a pair of snapshots by both peers.
SpecResolve == ResolveInit /\ [][ResolveNext]_vars

\* The integrity check of a received payload.
SpecVerify == VerifyInit /\ [][VerifyNext]_vars

\* The synchronisation with its deliveries.
SpecSync == SyncInit /\ [][SyncNext]_vars

\* The same, every attempt and every sleep of a delivery coming to an end.
SpecSyncFair == SyncInit /\ [][SyncNext]_vars /\ WF_vars(SendStep)

\* ------------------------------------------------------- C1, C2

\* Every counter of x is >= the corresponding counter of y (a missing node
\* id counts as 0) and at least one is strictly greater.
Dominates(x, y) ==
    /\ \A n \in NodeIds : Get(x, n) >= Get(y, n)
    /\ \E n \in NodeIds : Get(x, n) > Get(y, n)

\* C1: _vclock_compare(v1, v2) is 1 exactly when v1 dominates v2, -1 exactly
\* when v2 dominates v1, and 0 in every other case (equal or concurrent).
C1_CompareIsDominance ==
    vcPc = "done" =>
        /\ (cmpAB = 1) <=> Dominates(vcA, vcB)
        /\ (cmpAB = -1) <=> Dominates(vcB, vcA)
        /\ (cmpAB = 0) <=> (~Dominates(vcA, vcB) /\ ~Dominates(vcB, vcA))

\* A concurrent pair with a key missing on one side has been compared.
C1_Witness ==
    /\ vcPc = "done"
    /\ cmpAB = 0
    /\ vcA # vcB
    /\ DOMAIN vcA # DOMAIN vcB
    /\ \E n \in NodeIds : Get(vcA, n) > Get(vcB, n)

\* C2: _vclock_compare(A, B) = -_vclock_compare(B, A), and
\* _vclock_compare(A, A) = 0.
C2_Antisymmetric ==
    vcPc = "done" =>
        /\ cmpAB = -cmpBA
        /\ (vcA = vcB => cmpAB = 0)

\* A strictly ordered pair, one side missing a key of the other, has been
\* compared in both directions.
C2_Witness ==
    /\ vcPc = "done"
    /\ cmpAB = 1 /\ cmpBA = -1
    /\ DOMAIN vcA # DOMAIN vcB

\* ------------------------------------------------------- C3 .. C6

\* The clock of an entry: its vclock field, the empty clock when it has none.
ClockOf(entry) == IF "vclock" \in DOMAIN entry THEN entry.vclock ELSE EmptyClock

\* Neither clock dominates the other and they differ on some counter in
\* each direction.
Concurrent(x, y) ==
    /\ \E n \in NodeIds : Get(x, n) > Get(y, n)
    /\ \E n \in NodeIds : Get(y, n) > Get(x, n)

BothSides == (DOMAIN rsL) \cap (DOMAIN rsR)

\* C3: reconciliation is idempotent: with M = resolve(L, R), reconciling M
\* again with L and with R yields exactly M.
C3_Idempotent ==
    rsPc = "again" => (rsML = rsLR /\ rsMR = rsLR)

\* C4: for a key whose two entries have concurrent clocks, resolve(L, R) and
\* resolve(R, L) keep the same entry, so both peers end with the same value.
C4_TieBreakAgrees ==
    rsPc = "resolved" =>
        \A k \in BothSides :
            Concurrent(ClockOf(rsL[k]), ClockOf(rsR[k])) => rsLR[k] = rsRL[k]

\* C5: for a key present in both snapshots the entry with the strictly
\* greater clock is kept, an entry without a vclock field having the empty
\* clock.
C5_GreaterClockWins ==
    rsPc = "resolved" =>
        \A k \in BothSides :
            /\ Dominates(ClockOf(rsL[k]), ClockOf(rsR[k])) => rsLR[k] = rsL[k]
            /\ Dominates(ClockOf(rsR[k]), ClockOf(rsL[k])) => rsLR[k] = rsR[k]

\* A local entry with a strictly greater clock has won over a remote entry
\* that has no vclock field and another value.
C5_Witness ==
    /\ rsPc = "resolved"
    /\ \E k \in BothSides :
        /\ "vclock" \notin DOMAIN rsR[k]
        /\ Dominates(ClockOf(rsL[k]), ClockOf(rsR[k]))
        /\ rsL[k].value # rsR[k].value
        /\ rsLR[k] = rsL[k]

\* C6: the keys of the result are the union of the keys of the two
\* snapshots, and a key of one snapshot only keeps that snapshot's entry.
C6_UnionOfKeys ==
    rsPc = "resolved" =>
        /\ DOMAIN rsLR = (DOMAIN rsL) \cup (DOMAIN rsR)
        /\ \A k \in (DOMAIN rsL) \ (DOMAIN rsR) : rsLR[k] = rsL[k]
        /\ \A k \in (DOMAIN rsR) \ (DOMAIN rsL) : rsLR[k] = rsR[k]

\* A resolution of one key held only locally and one held only remotely.
C6_Witness ==
    /\ rsPc = "resolved"
    /\ (DOMAIN rsL) \ (DOMAIN rsR) # {}
    /\ (DOMAIN rsR) \ (DOMAIN rsL) # {}
    /\ DOMAIN rsLR = Keys

\* ------------------------------------------------------- C7, C8

IsCommit(i) == sySends[i].payload.phase = "commit"
IsPrepare(i) == sySends[i].payload.phase = "prepare"

\* C7: in a run of synchronize_state a commit message is sent to the peer
\* only after a prepare message was sent to it and an acknowledgment with
\* status ready was received, and it carries the sync_id of that
\* acknowledgment; after a timeout or an acknowledgment that is not ready
\* no commit message is sent.
C7_CommitOnlyAfterReadyAck ==
    /\ \A i \in DOMAIN sySends :
        IsCommit(i) =>
            /\ \E j \in 1..(i - 1) :
                IsPrepare(j) /\ sySends[j].recipient = sySends[i].recipient
            /\ sySends[i].recipient = syPeer
            /\ syAck.status = "ready"
            /\ sySends[i].payload.sync_id = syAck.sync_id
    /\ (syTimedOut \/ syAck.status = "rejected") =>
            \A i \in DOMAIN sySends : ~IsCommit(i)

\* A run that received a ready acknowledgment with sync id 2 has sent its
\* commit and returned.
C7_Witness ==
    /\ syPc = "returned"
    /\ syAck = [status |-> "ready", sync_id |-> 2]
    /\ Len(sySends) = 2
    /\ IsPrepare(1) /\ IsCommit(2)
    /\ sySends[2].payload.sync_id = 2

\* C8: when the wait for the acknowledgment times out, the timeout handler
\* is invoked exactly once, for the peer; the run has sent its one prepare
\* message and nothing else; the local state is the state the prepare
\* message carried; and synchronize_state has returned, not raised.
C8_TimeoutHandledOnce ==
    syTimedOut =>
        /\ syPc = "returned"
        /\ syHandled = <<syPeer>>
        /\ Len(sySends) = 1
        /\ IsPrepare(1)
        /\ sySends[1].recipient = syPeer
        /\ sySends[1].payload.state = syLocal

\* The second run of a behaviour has timed out after a prepare message that
\* needed a retry.
C8_Witness ==
    /\ syTimedOut
    /\ syPc = "returned"
    /\ syRuns = 2
    /\ Len(sdOutcomes) = 2
    /\ syHandled = <<syPeer>>

\* ------------------------------------------------------- C9

\* The payload carries version, timestamp and checksum, and its checksum is
\* the hash of its content.
WellFormed ==
    /\ vfIsDict
    /\ {"version", "timestamp", "checksum"} \subseteq DOMAIN vfData
    /\ "content" \in DOMAIN vfData
    /\ vfData["content"] # Unhashable
    /\ ComputeStateChecksum(vfData["content"]) = ChecksumText(vfData["checksum"])

\* C9: _verify_state_integrity returns True exactly for a payload that
\* carries version, timestamp and checksum and whose checksum is the hash of
\* its content, and returns False, never raising, for every other payload.
C9_AcceptsExactlyWellFormed ==
    vfPc = "done" =>
        /\ vfRes \in {"True", "False"}
        /\ (vfRes = "True") <=> WellFormed

\* A payload with all its fields and the right checksum has been accepted.
C9_Witness ==
    /\ vfPc = "done"
    /\ vfRes = "True"
    /\ DOMAIN vfData = PayloadFields

\* ------------------------------------------------------- C10

Failures == Cardinality({i \in DOMAIN sdOutcomes : sdOutcomes[i] = "fail"})

\* At most 3 attempts, none after a success; the sleeps are 1 and 2 seconds
\* after the first and the second failed attempt and none after the third.
C10_Attempts ==
    /\ Len(sdOutcomes) <= 3
    /\ \A i \in DOMAIN sdOutcomes :
        sdOutcomes[i] = "ok" => i = Len(sdOutcomes)
    /\ Len(sdSleeps) = (IF Failures <= 2 THEN Failures ELSE 2)
    /\ \A i \in DOMAIN sdSleeps : sdSleeps[i] = i
    /\ sdPc = "returned" => sdOutcomes[Len(sdOutcomes)] = "ok"
    /\ sdPc = "raised" => sdOutcomes = <<"fail", "fail", "fail">>
    /\ sdPc \in {"connect", "sleep"} => Failures = Len(sdOutcomes)

\* C10: one call of _send_to_node makes at most 3 attempts, stops at the
\* first that succeeds, sleeps 1 second after the first failed attempt and
\* 2 seconds after the second and not after the third, and terminates.
C10_BoundedRetries ==
    /\ []C10_Attempts
    /\ (sdPc = "connect") ~> (sdPc \in {"returned", "raised"})

\* A call has failed three times, with sleeps of 1 and 2 seconds, and raised.
C10_Witness ==
    /\ sdPc = "raised"
    /\ Len(sdOutcomes) = 3
    /\ sdSleeps = <<1, 2>>


\* C11: a send whose three attempts all fail raises to its caller and adds
\* exactly one to the failed-delivery counter of the metrics collector; a
\* send with a successful attempt returns and leaves the counter alone.
C11_FailedSendIsCounted ==
    [][/\ (sdPc = "connect" /\ sdPc' = "raised")
            => failed_messages' = failed_messages + 1
       /\ (sdPc = "connect" /\ sdPc' = "returned")
            => failed_messages' = failed_messages]_vars

AllFailed == [i \in 1..MaxRetries |-> "fail"]

C13_TrueOnlyForExactToken ==
    tkRes # "none" =>
        (tkRes = "True" <=>
            /\ tkQuery.agent_id \in DOMAIN agentKeys
            /\ tkQuery.token = B64Encode(agentKeys[tkQuery.agent_id]))

\* C14: verification never raises: for every id and every presented text,
\* valid base64 or not, it answers True or False, and the token store is
\* what it was before the call.
C14_NeverRaises ==
    /\ tkRes \in {"none", "True", "False"}
    /\ tkRes # "none" => agentKeys = tkBefore

C14_Witness ==
    /\ tkRes = "False"
    /\ tkQuery.token.form = "invalid"
    /\ tkQuery.agent_id \in DOMAIN agentKeys

SameInstanceUntouched ==
    /\ crRes \in {"payload", "InvalidToken"}
    /\ ~crTampered
    /\ crDecBy = crEncBy

JsonExact(data) ==
    data.keys = "str" /\ data.seq = "list" /\ data.serializable

C16_WitnessOtherKey ==
    /\ crRes = "InvalidToken"
    /\ ~crTampered
    /\ crDecBy # crEncBy


\* ------------------------------------------------------- C17 .. C20

Age(id) == now - seenAt[id]

C18_IdempotentUpsert ==
    [][rgLast' = "register" =>
        LET a == rgArgs' IN
        /\ DOMAIN nodes' = (DOMAIN nodes) \cup {a.agent_id}
        /\ \A id \in DOMAIN nodes' : nodes'[id].agent_id = id
        /\ nodes'[a.agent_id] =
              [agent_id |-> a.agent_id, host |-> a.host, port |-> a.port,
               capabilities |-> a.capabilities,
               last_seen |-> now', status |-> "active"]
        /\ \A id \in (DOMAIN nodes) \ {a.agent_id} : nodes'[id] = nodes[id]
        /\ (rgLast = "register" /\ rgArgs = a) => nodes' = nodes]_vars

C18_Witness ==
    /\ rgLast = "register" /\ rgOverwrote
    /\ rgArgs.agent_id = "a1"
    /\ nodes["a1"].last_seen = now /\ now > 0
    /\ "a2" \in DOMAIN nodes /\ nodes["a2"].last_seen < now

\* C19: in the discovery loop and the health-check loop an error is
\* followed by the 5 second pause and leaves every other loop where it
\* is; the pause is left only for a new iteration or by cancellation; a
\* loop ends only when it was cancelled.
C19_ErrorsDoNotEndLoops ==
    [][\A loop \in DiscoveryTasks :
        /\ lpErrors'[loop] = lpErrors[loop] + 1 =>
              /\ lpPc'[loop] = "pause"
              /\ lpSleep'[loop] = ErrorPause
              /\ \A other \in Loops \ {loop} : lpPc'[other] = lpPc[other]
        /\ (lpPc[loop] = "pause" /\ lpPc'[loop] # "pause") =>
              \/ lpPc'[loop] = "work"
              \/ lpCancel[loop] /\ lpPc'[loop] = "cancelled"
        /\ (lpPc[loop] \notin Ended /\ lpPc'[loop] \in Ended) =>
              lpCancel[loop]]_vars

C19_Witness ==
    /\ lpErrors["discovery"] >= 1 /\ lpPc["discovery"] = "sleep"
    /\ lpErrors["health"] >= 1 /\ lpPc["health"] = "pause"
    /\ dsPc = "started"

\* C20: once stop has returned no task made by start is still running,
\* and once stop_monitoring has returned the monitoring task is not
\* running, wherever each task was when it was cancelled.
C20_NoLeakedLoops ==
    /\ dsPc = "stopped" => \A loop \in DiscoveryTasks : ~Running(loop)
    /\ monPc = "stopped" => ~Running("monitor")

C20_Witness ==
    /\ dsPc = "stopped" /\ monPc = "stopped"
    /\ lpCancelledAt["discovery"] = "pause"
    /\ lpCancelledAt["health"] = "sleep"
    /\ lpCancelledAt["monitor"] = "work"

C20_WitnessStopBeforeStart ==
    /\ monPc = "stopped"
    /\ lpPc["monitor"] = "none"


\* ------------------------------------------------------- C21 .. C30

\* C21: of two calls that were waiting at the same time, each receives the
\* acknowledgment that answered its own prepare message, and each commit
\* goes to the peer of its call with the sync id of that acknowledgment.
C21_ConcurrentSyncsApart ==
    ccOverlap =>
        /\ \A call \in CallIds :
              ccGot[call] # NoAnswer => ccGot[call].answers = call
        /\ \A commit \in ccCommits :
              /\ commit.peer = ccPeer[commit.call]
              /\ \E ack \in {ccGot[commit.call]} :
                    /\ ack.answers = commit.call
                    /\ ack.sync_id = commit.sync_id

\* The part of C21 for two different peers.
C21_DifferentPeersApart ==
    (ccOverlap /\ ccPeer["c1"] # ccPeer["c2"]) =>
        /\ \A call \in CallIds :
              ccGot[call] # NoAnswer => ccGot[call].answers = call
        /\ \A commit \in ccCommits :
              /\ commit.peer = ccPeer[commit.call]
              /\ ccGot[commit.call].sync_id = commit.sync_id


\* C22: the delivery rate is 1 when nothing was sent, whatever the other
\* counters hold, and delivered / sent otherwise; 7 delivered of 10 sent
\* gives 7/10.
C22_DeliveryRate ==
    /\ sent_messages = 0 => GetDeliveryRate = <<1, 1>>
    /\ sent_messages > 0 =>
          /\ GetDeliveryRate[2] > 0
          /\ GetDeliveryRate[1] * sent_messages
                = delivered_messages * GetDeliveryRate[2]
    /\ (sent_messages = 10 /\ delivered_messages = 7)
          => GetDeliveryRate = <<7, 10>>

C22_Witness ==
    /\ sent_messages = 10 /\ delivered_messages = 7
    /\ failed_messages = 1

C22_WitnessNothingSent ==
    /\ sent_messages = 0 /\ delivered_messages = 2 /\ failed_messages = 1

\* C23: after any sequence of recording calls the health score lies
\* between 0 and 1 inclusive.
C23_ScoreNormalized ==
    /\ 0 <= HealthScore[1]
    /\ HealthScore[1] <= HealthScore[2]

\* The samples the window must hold after latCount calls.
ExpectedWindow ==
    LET size == IF latCount < LatencyWindow THEN latCount ELSE LatencyWindow
    IN  [i \in 1..size |-> SampleOf(latProfile, latCount - size + i)]

\* The mean of the expected window, from the closed form of its sum.
ExpectedMean ==
    LET size == Len(ExpectedWindow)
        first == latCount - size + 1
    IN  IF latProfile = "steady" THEN <<600, 1>>
        ELSE Frac(10 * (first + latCount) * size, size)

\* C26: the window holds the last min(n, 100) samples in arrival order;
\* the average latency is their arithmetic mean, and None when the window
\* is empty.
C26_LatencyWindow ==
    /\ latency_samples = ExpectedWindow
    /\ Len(latency_samples) <= LatencyWindow
    /\ latCount = 0 => GetAverageLatency = None
    /\ latCount > 0 => GetAverageLatency = ExpectedMean

C26_Witness ==
    /\ latCount = LatencyWindow + 1
    /\ latProfile = "growing"
    /\ Len(latency_samples) = LatencyWindow
    /\ Head(latency_samples) = SampleOf("growing", 2)

\* C27: with an empty window the health score is the delivery rate; with
\* samples, twice the score is the delivery rate plus the latency
\* component, which is 1 - average/1000 below 1000 ms and 0 from there on.
C27_UnweightedMean ==
    IF latency_samples = <<>>
    THEN HealthScore = GetDeliveryRate
    ELSE LET average == Mean(latency_samples)
             component ==
                 IF average[1] >= 1000 * average[2] THEN Zero
                 ELSE Frac(1000 * average[2] - average[1], 1000 * average[2])
         IN  Frac(2 * HealthScore[1], HealthScore[2])
               = FracAdd(GetDeliveryRate, component)

C27_Witness ==
    /\ latency_samples # <<>>
    /\ Mean(latency_samples)[1] > 1000 * Mean(latency_samples)[2]
    /\ sent_messages = 4 /\ delivered_messages = 3
    /\ HealthScore = <<3, 8>>


MonitorIterates == lpPc["monitor"] = "work" /\ lpPc'["monitor"] = "sleep"

\* C24: an iteration of the monitoring loop triggers the alert exactly
\* when the score it computed is strictly below 0.7, and it is followed by
\* the sleep of 60 seconds.
C24_AlertBelowThresholdOnly ==
    [][MonitorIterates =>
        /\ mnAlerted' <=> (10 * HealthScore[1] < 7 * HealthScore[2])
        /\ ~mnAlerted' => mnInvoked' = <<>>
        /\ lpSleep'["monitor"] = MonitorInterval]_vars

C24_Witness ==
    /\ lpPc["monitor"] = "sleep"
    /\ mnBand = "at" /\ ~mnAlerted
    /\ alert_callbacks # <<>>

C24_WitnessBelow ==
    /\ lpPc["monitor"] = "sleep"
    /\ mnBand = "below" /\ mnAlerted
    /\ mnInvoked # <<>>

\* C25: a triggered alert invokes every registered callback exactly once,
\* in registration order, whichever of them raise, and the loop goes on
\* to its sleep.
C25_EveryCallbackInvoked ==
    [][(MonitorIterates /\ mnAlerted') =>
        /\ Len(mnInvoked') = Len(alert_callbacks)
        /\ \A i \in 1..Len(alert_callbacks) :
              /\ mnInvoked'[i].callback = i
              /\ mnInvoked'[i].raised = (alert_callbacks[i] = "raises")
        /\ lpPc'["monitor"] \notin Ended]_vars

C25_Witness ==
    /\ mnAlerted
    /\ Len(mnInvoked) = 2
    /\ mnInvoked[1].raised /\ ~mnInvoked[2].raised
    /\ lpPc["monitor"] = "sleep"


\* The last call was execute on a PENDING task.
ExecutedPending == txLast.op = "execute" /\ txLast.before = "PENDING"

\* C28: with retry_attempts = R, a handler that raises on its first R
\* calls and returns on call R + 1 makes execute return its result: the
\* task is COMPLETED and its attempts are R + 1.
C28_RetriesAfterFirstAttempt ==
    (/\ ExecutedPending
     /\ txLast.calls_before = 0
     /\ handler = [kind |-> "fails_first", n |-> retry_attempts])
        => /\ txLast.outcome = "returned"
           /\ txLast.value = "success"
           /\ tasks[txLast.task_id].status = "COMPLETED"
           /\ tasks[txLast.task_id].attempts = retry_attempts + 1

\* C29: with a handler that raises on every call execute raises
\* RuntimeError after exactly retry_attempts calls of the handler: the
\* task is FAILED, its attempts are retry_attempts, its error holds the
\* handler's message and its result is None.
C29_FailsAfterRetries ==
    (ExecutedPending /\ handler.kind = "always_fails")
        => /\ txLast.outcome = "RuntimeError"
           /\ txLast.calls = retry_attempts
           /\ tasks[txLast.task_id].status = "FAILED"
           /\ tasks[txLast.task_id].attempts = retry_attempts
           /\ tasks[txLast.task_id].error = "Simulated failure"
           /\ tasks[txLast.task_id].result = "None"

\* The statement of C29 for a configuration with at least one attempt.
C29_FailsAfterRetriesFromOne ==
    retry_attempts >= 1 => C29_FailsAfterRetries

\* C30: cancel_task makes a PENDING task CANCELLED; a CANCELLED task stays
\* CANCELLED and its handler is not invoked, whatever is called later,
\* and execute of it returns.
C30_CancelledNeverRuns ==
    [][/\ \A id \in DOMAIN tasks :
            tasks[id].status = "CANCELLED" =>
                /\ tasks'[id].status = "CANCELLED"
                /\ tasks'[id].called = tasks[id].called
                /\ tasks'[id].attempts = tasks[id].attempts
       /\ (txLast'.op = "cancel_task" /\ txLast'.before = "PENDING") =>
            /\ tasks'[txLast'.task_id].status = "CANCELLED"
            /\ tasks'[txLast'.task_id].called = 0
       /\ (txLast'.op = "execute" /\ txLast'.before = "CANCELLED") =>
            /\ txLast'.outcome = "returned"
            /\ txLast'.calls = 0]_vars

C30_Witness ==
    /\ txLast.op = "execute" /\ txLast.before = "CANCELLED"
    /\ tasks[txLast.task_id].called = 0
    /\ retry_attempts >= 1
    /\ handler.kind = "fails_first" /\ handler.n = 0


\* -------------------------------------------------------------- C31 .. C39

\* C37: when execute returns or raises for a task that was PENDING at the
\* call, the task is COMPLETED or FAILED, and a normal return happens only
\* with COMPLETED, for every retry_attempts (0 included) and every handler.
C37_NeverLeftRunning ==
    ExecutedPending =>
        /\ tasks[txLast.task_id].status \in {"COMPLETED", "FAILED"}
        /\ txLast.outcome = "returned" =>
                tasks[txLast.task_id].status = "COMPLETED"

Absorbing == {"COMPLETED", "FAILED", "CANCELLED"}

\* C38: a task that is COMPLETED, FAILED or CANCELLED keeps its status,
\* result, error and attempts under every call, and get_results returns a
\* result other than None only for a COMPLETED task.
C38_TerminalStatesAbsorb ==
    [][/\ \A id \in DOMAIN tasks :
            tasks[id].status \in Absorbing =>
                /\ id \in DOMAIN tasks'
                /\ tasks'[id].status = tasks[id].status
                /\ tasks'[id].result = tasks[id].result
                /\ tasks'[id].error = tasks[id].error
                /\ tasks'[id].attempts = tasks[id].attempts
       /\ (txLast'.op = "get_results" /\ txLast'.value # "None") =>
            tasks'[txLast'.task_id].status = "COMPLETED"]_vars

C38_Witness ==
    /\ txLast.op = "cancel_task" /\ txLast.before = "COMPLETED"
    /\ tasks[txLast.task_id].result = "success"

C38_WitnessResults ==
    /\ txLast.op = "get_results" /\ txLast.value = "success"
    /\ \E id \in DOMAIN tasks : tasks[id].status = "FAILED"


\* The k most recent elements of a sequence, all of them when it is shorter.
MostRecent(list, k) ==
    IF k >= Len(list) THEN list ELSE SubSeq(list, Len(list) - k + 1, Len(list))
Min(a, b) == IF a < b THEN a ELSE b

\* C31: the history holds at most max_history entries: exactly the most
\* recent min(n, max_history) of the n accepted messages, in the order they
\* were added.
C31_HistoryBounded ==
    cvPc = "ready" =>
        /\ Len(history) <= max_history
        /\ history = MostRecent(accepted, Min(Len(accepted), max_history))

\* The statement of C31 for a max_history of at least 1.
C31_HistoryBoundedFromOne ==
    max_history >= 1 => C31_HistoryBounded

\* A blank message, or a role outside VALID_ROLES.
Rejected(message, role) ==
    \/ message = <<>>
    \/ \A i \in 1..Len(message) : message[i] = " "
    \/ role \notin {"user", "assistant", "system"}

\* C32: add_message and generate_response raise ValueError for a blank
\* message or a role outside {user, assistant, system} and leave the
\* history as it was.
C32_RejectedChangesNothing ==
    (cvLast.op \in {"add_message", "generate_response"}
        /\ Rejected(cvLast.message, cvLast.role))
        => cvLast.raised /\ history = cvLast.before

C32_Witness ==
    /\ cvLast.op = "add_message" /\ cvLast.role = "invalid_role"
    /\ cvLast.raised /\ history # <<>>

C32_WitnessBlankInput ==
    /\ cvLast.op = "generate_response" /\ cvLast.message = <<" ", " ">>
    /\ cvLast.raised /\ history # <<>>

\* C33: get_context(n) returns the n most recent entries of the history
\* for every n >= 0 (none for n = 0, all when n exceeds the length),
\* get_context() returns the whole history, and the history is unchanged.
C33_ContextIsMostRecent ==
    cvLast.op = "get_context" =>
        /\ history = cvLast.before
        /\ cvLast.returned =
               IF cvLast.message_count = <<>> THEN history
               ELSE MostRecent(history, cvLast.message_count[1])

\* The statement of C33 for n >= 1 and for no argument.
C33_ContextFromOne ==
    (cvLast.op = "get_context" /\ cvLast.message_count # <<0>>)
        => C33_ContextIsMostRecent


\* The limits the configuration asks for.
Configured ==
    [name \in ResourceNames |->
        LET limit == ConfiguredLimit(resource_limits, name).bytes
        IN  <<limit, limit>>]

\* C34: while every apply and restore has succeeded, apply leaves the
\* sandbox enabled with the configured limits installed, restore leaves
\* it not enabled with the limits of before the enabling apply, apply
\* while enabled and restore while not enabled change nothing, and
\* whenever the sandbox is not enabled the limits are those of before the
\* first apply.
C34_ApplyRestoreRoundTrip ==
    (sbPc = "ready" /\ ~sbFailed) =>
        /\ enabled => (rlimits = Configured /\ original_limits = sbInitial)
        /\ ~enabled => rlimits = sbInitial
        /\ sbLast.op = "apply" => enabled
        /\ sbLast.op = "restore" => ~enabled
        /\ (sbLast.op = "apply" /\ sbLast.was_enabled)
                => rlimits = sbLast.before
        /\ (sbLast.op = "restore" /\ ~sbLast.was_enabled)
                => rlimits = sbLast.before

C34_Witness ==
    /\ ~sbFailed /\ sbLast.op = "restore" /\ sbLast.was_enabled
    /\ sbLast.before = Configured /\ sbLast.before # sbInitial
    /\ rlimits = sbInitial

C34_WitnessApplyTwice ==
    /\ ~sbFailed /\ sbLast.op = "apply" /\ sbLast.was_enabled
    /\ rlimits = Configured

\* C35: the sandbox is enabled during the whole body of a with-block and
\* not enabled after the block, however the body ends, and an exception
\* of the body is not suppressed.
C35_EnabledInsideWith ==
    /\ withPc = "body" => enabled
    /\ (withPc = "exited" /\ sbLast.op = "exit") =>
            /\ ~enabled
            /\ sbLast.ending = "exception" => sbLast.propagated

\* C39: an apply that raises leaves enabled false and the limits of the
\* process as they were before the call.
C39_FailedApplyChangesNothing ==
    (sbLast.op = "apply" /\ sbLast.raised) =>
        ~enabled /\ rlimits = sbLast.before


ElementsOf(list) == {list[i] : i \in 1..Len(list)}

\* Task t goes before task u: a higher priority, or the same priority and
\* created earlier.
GoesBefore(t, u) ==
    \/ PriorityValue(t.priority) > PriorityValue(u.priority)
    \/ t.priority = u.priority /\ t.created_at < u.created_at

\* C36: pop returns None for an empty queue and otherwise removes and
\* returns the queued task that goes before every other one (CRITICAL
\* before HIGH before NORMAL before LOW, the earlier created first within
\* a priority); no task is returned twice and every task given to push is
\* either queued or has been returned.
C36_PopHighestPriority ==
    /\ (qLast.op = "pop" /\ qLast.before = <<>>) =>
            ~qLast.raised /\ qLast.returned = <<>>
    /\ (qLast.op = "pop" /\ qLast.before # <<>>) =>
            /\ ~qLast.raised
            /\ Len(qLast.returned) = 1
            /\ qLast.returned[1] \in ElementsOf(qLast.before)
            /\ \A u \in ElementsOf(qLast.before) \ {qLast.returned[1]} :
                    GoesBefore(qLast.returned[1], u)
            /\ ElementsOf(queue) =
                    ElementsOf(qLast.before) \ {qLast.returned[1]}
    /\ \A i, j \in 1..Len(qPopped) : qPopped[i] = qPopped[j] => i = j
    /\ \A i, j \in 1..Len(queue) : queue[i] = queue[j] => i = j
    /\ ElementsOf(queue) \cap ElementsOf(qPopped) = {}
    /\ ElementsOf(queue) \cup ElementsOf(qPopped) = qCalled

\* The statement of C36 for tasks of one priority.
C36_OnePriorityFifo ==
    (\A t, u \in qCalled : t.priority = u.priority)
        => C36_PopHighestPriority

====
